---- MODULE Spec2Model ----
(***************************************************************************)
(* InsightStore AI: the analysis pipeline.                                 *)
(*                                                                         *)
(*   run-analysis    (runPipeline)      the orchestrator, background task  *)
(*   scrape-reviews  (Deno.serve)       the sample collector + 24h cache   *)
(*   analyse-reviews (Deno.serve)       extraction, validation, persistence*)
(*   gemini.ts       (analyseReviewsWithGemini) the retrying client        *)
(*   AnalysisProgress.tsx               the progress observer              *)
(*                                                                         *)
(* Every `await` of the three edge functions is one step.  The relational  *)
(* store answers every statement; the only statement whose error the code  *)
(* inspects (the pain_points insert) may fail.  Time is counted in hours.  *)
(***************************************************************************)
EXTENDS Integers, Sequences, FiniteSets, TLC

\* ------------------------------------------------------------------------
\* Bounds of the model
\* ------------------------------------------------------------------------
\* the clock is advanced at most MaxTicks hours during a run
MaxTicks == 1
\* timers of the observer that may be pending at once
MaxNavTimers == 2
\* concurrent CreateJob requests of the owner
MaxRequests == 2
\* requests a client sends directly to the table API or to an edge function
MaxClientCalls == 1
\* invocations of scrape-reviews that run at the same time on one review_cache
MaxCollectors == 2

\* ------------------------------------------------------------------------
\* Program constants
\* ------------------------------------------------------------------------
REVIEWS_PER_TIER == 100
CACHE_TTL_HOURS == 24
MAX_QUOTES == 2

\* the hour at which a run starts: old enough for an expired cache row
StartHour == CACHE_TTL_HOURS + 1
MaxNow == StartHour + MaxTicks
Tiers == <<1, 2, 3>>
TierSet == {1, 2, 3}
Terminal == {"complete", "error"}

\* ------------------------------------------------------------------------
\* Sequence helpers
\* ------------------------------------------------------------------------
Min(a, b) == IF a < b THEN a ELSE b
Max(a, b) == IF a > b THEN a ELSE b

\* Array.prototype.slice(0, n)
Slice(s, n) == SubSeq(s, 1, Min(n, Len(s)))

\* Array.prototype.filter is SelectSeq; Array.prototype.map is written
\* [i \in 1..Len(s) |-> f(s[i])] where it is used

\* ------------------------------------------------------------------------
\* Reviews.  `text` is the number of characters of the review text.
\* ------------------------------------------------------------------------
Raw(score, author, len) == [text |-> len, score |-> score, userName |-> author]

\* what gplay.reviews() can answer on one call: a list, or a thrown error
RawLists ==
    { <<>>,
      << Raw(1, "alice", 40), Raw(3, "bob", 4) >>,
      << Raw(5, "dave", 40) >> }

\* a cache row written by an earlier request for tier t
CachedReviews(t) == << Raw(t, "reviewer", 41) >>

NoEntry == [present |-> FALSE, cached_at |-> 0, reviews |-> <<>>]

\* scrape-reviews, the two .map() bodies: the author is replaced
\* variant: the review is passed on as the store returned it
Sanitise_KeepAuthor(r) == r

Sanitise(r) == [text |-> r.text, score |-> r.score, userName |-> "reviewer"]

\* scrape-reviews: filter to the tier, else fall back to everything returned
TierReviewsOf(rawReviews, tier) ==
    LET IsTier(r) == r.score = tier
        ofTier == Slice(SelectSeq(rawReviews, IsTier), REVIEWS_PER_TIER)
        filtered == [i \in 1..Len(ofTier) |-> Sanitise(ofTier[i])]
        anyTier == Slice(rawReviews, REVIEWS_PER_TIER)
    IN  IF Len(filtered) = 0 /\ Len(rawReviews) > 0
        THEN [i \in 1..Len(anyTier) |-> Sanitise(anyTier[i])]
        ELSE filtered

\* scrape-reviews: reviewCounts, counted by score
CountScore(reviews, k) ==
    LET IsK(r) == r.score = k IN Len(SelectSeq(reviews, IsK))
ReviewCountsOf(reviews) == [k \in TierSet |-> CountScore(reviews, k)]

tierProgressMap ==
    [t \in TierSet |->
        CASE t = 1 -> [stage |-> "scraping_1star", percent |-> 10]
          [] t = 2 -> [stage |-> "scraping_2star", percent |-> 20]
          [] t = 3 -> [stage |-> "scraping_3star", percent |-> 30]]

\* ------------------------------------------------------------------------
\* HTTP responses of the sibling functions, and the diagnostic text
\* ------------------------------------------------------------------------
Resp(code, err, reviews) ==
    [status |-> code, ok |-> (code >= 200 /\ code < 300), error |-> err,
     reviews |-> reviews]
NoResp == [status |-> 0, ok |-> FALSE, error |-> "", reviews |-> <<>>]

\* analyses.app_name: NULL, the store title, or a diagnostic
Diag(kind, fn, code, err) == [kind |-> kind, fn |-> fn, code |-> code, error |-> err]
NullName == Diag("null", "", 0, "")
TitleName == Diag("title", "", 0, "")
\* `${fn} failed (${res.status}): ${errText}`
FailedDiag(fn, res) == Diag("failed", fn, res.status, res.error)
\* `catch: ${msg}`.substring(0, 200)
CatchDiag == Diag("catch", "", 0, "fetch failed")

\* --- the number of characters of a diagnostic ---
DIAG_MAX == 200
\* characters of err.stack || err.message of a thrown error
MsgLens == {12, 400}
\* characters of the body of a non-ok answer: the JSON bodies of the two
\* functions are fixed texts, except the detail of gemini_unavailable and
\* db_insert_failed, which carries the message of another service
BodyLens(res) ==
    CASE res.error = "app_not_found" -> {25}
      [] res.error = "scraping_failed" -> {64}
      [] res.error \in {"gemini_unavailable", "db_insert_failed"} -> {60, 400}
      [] OTHER -> {50}
\* `${fn} failed (${res.status}): ${errText}`, status of three digits
FailedDiagLen(fn, bodyLen) ==
    (IF fn = "scrape-reviews" THEN 14 ELSE 15) + 15 + bodyLen
\* `catch: ${msg}`.substring(0, 200)
CatchDiagLen(msgLen) == Min(7 + msgLen, DIAG_MAX)

\* ------------------------------------------------------------------------
\* gemini.ts: the extraction client
\* ------------------------------------------------------------------------
MAX_RETRIES == 4
BASE_DELAY_MS == 5000
MIN_TEXT_LEN == 10
MAX_TEXT_LEN == 500

RECURSIVE Pow2(_)
Pow2(n) == IF n <= 0 THEN 1 ELSE 2 * Pow2(n - 1)

\* the sleep before loop iteration `attempt` (attempt > 0)
\* variant: the delay grows by BASE_DELAY_MS each time
delay_Linear(attempt) == BASE_DELAY_MS * attempt
delay(attempt) == BASE_DELAY_MS * Pow2(attempt - 1)

\* --- pain points as the remote model returns them ---
Improvement(phase) ==
    [present |-> TRUE, recommendationIsString |-> TRUE, phase |-> phase,
     effort |-> "Low", impact |-> "High"]
PP(category, severity, freq, quotes, phase) ==
    [category |-> category, severity |-> severity,
     frequencyIsNumber |-> TRUE, frequency |-> freq,
     descriptionIsString |-> TRUE,
     quotesIsArray |-> TRUE, representative_quotes |-> quotes,
     improvement |-> Improvement(phase)]

Quotes(n) == [i \in 1..n |-> i]
GoodPP(n) == PP("Bug", "High", 7, Quotes(n), "Quick Win")
NoPhasePP == PP("UX Issue", "Low", 2, Quotes(1), "undefined")
NegFreqPP == PP("Privacy", "Medium", 0 - 1, Quotes(2), "Long-Term")

PainPointLists ==
    { << GoodPP(3) >>,
      << GoodPP(1), NoPhasePP, GoodPP(2) >>,
      << GoodPP(2), NegFreqPP, GoodPP(0) >>,
      << NoPhasePP >>,
      << >> }

\* --- the text part of a 200 answer, as a sequence of tokens ---
Tok(t, hasArray, pps) == [t |-> t, hasArray |-> hasArray, pain_points |-> pps]
FenceJson == Tok("fence_json", FALSE, <<>>)
Fence == Tok("fence", FALSE, <<>>)
Ws == Tok("ws", FALSE, <<>>)
Garbage == Tok("garbage", FALSE, <<>>)
JsonDoc(pps) == Tok("json", TRUE, pps)
JsonNoArray == Tok("json", FALSE, <<>>)

RECURSIVE DropLeadingWs(_)
DropLeadingWs(s) ==
    IF s # <<>> /\ Head(s) = Ws THEN DropLeadingWs(Tail(s)) ELSE s
RECURSIVE DropTrailingWs(_)
DropTrailingWs(s) ==
    IF s # <<>> /\ s[Len(s)] = Ws THEN DropTrailingWs(SubSeq(s, 1, Len(s) - 1))
    ELSE s

\* extractJson: strip the code fence, trim, JSON.parse, check pain_points
StripFences(text) ==
    LET a == IF text # <<>> /\ Head(text) = FenceJson
             THEN DropLeadingWs(Tail(text)) ELSE text
        b == IF a # <<>> /\ Head(a) = Fence THEN DropLeadingWs(Tail(a)) ELSE a
        c == IF b # <<>> /\ b[Len(b)] = Fence
             THEN DropTrailingWs(SubSeq(b, 1, Len(b) - 1)) ELSE b
    IN  DropTrailingWs(DropLeadingWs(c))

GErr(msg, code, marker) == [msg |-> msg, status |-> code, marker |-> marker]
NoErr == GErr("", 0, FALSE)
GOut(ok, pps, err) == [ok |-> ok, pain_points |-> pps, error |-> err]

extractJson(text) ==
    LET clean == StripFences(text)
    IN  IF Len(clean) # 1 \/ clean[1].t # "json"
        THEN GOut(FALSE, <<>>, GErr("SyntaxError", 0, FALSE))
        ELSE IF ~clean[1].hasArray
        THEN GOut(FALSE, <<>>, GErr("Gemini response missing pain_points array", 0, FALSE))
        ELSE GOut(TRUE, clean[1].pain_points, NoErr)

\* --- one answer of the remote service to one attempt ---
\* net: fetch rejected; otherwise an HTTP status, whether the error body
\* itself contains the text "Gemini API 400:", and the text of a 200 answer
GResp(net, code, marker, text) ==
    [net |-> net, status |-> code, marker |-> marker, text |-> text]
NetFail == GResp(TRUE, 0, FALSE, <<>>)
Http(code) == GResp(FALSE, code, FALSE, <<>>)
HttpEcho(code) == GResp(FALSE, code, TRUE, <<>>)
Ok200(text) == GResp(FALSE, 200, FALSE, text)

\* the body of the try block of one loop iteration
AttemptOnce(resp) ==
    IF resp.net THEN GOut(FALSE, <<>>, GErr("fetch failed", 0, FALSE))
    ELSE IF ~(resp.status >= 200 /\ resp.status < 300)
    THEN IF resp.status = 429
         THEN GOut(FALSE, <<>>, GErr("RateLimited", 0, FALSE))
         ELSE GOut(FALSE, <<>>, GErr("Gemini API", resp.status, resp.marker))
    ELSE IF resp.text = <<>>
    THEN GOut(FALSE, <<>>, GErr("Gemini returned empty content", 0, FALSE))
    ELSE extractJson(resp.text)

\* lastError.message.includes("Gemini API 400:")
\* variant: no failure ends the loop early
IsFatal400_Never(err) == FALSE
IsFatal400(err) == err.msg = "Gemini API" /\ (err.status = 400 \/ err.marker)

\* the answer to the k-th request (the last one repeats)
ResponseAt(script, k) == IF k <= Len(script) THEN script[k] ELSE script[Len(script)]

GResult(ok, pps, err, attempts, sleeps) ==
    [ok |-> ok, pain_points |-> pps, error |-> err, attempts |-> attempts,
     sleeps |-> sleeps]

\* variant: the loop bound is off by one
RECURSIVE GeminiLoop_OffByOne(_, _, _, _)
GeminiLoop_OffByOne(script, attempt, sleeps, lastError) ==
    IF attempt > MAX_RETRIES
    THEN GResult(FALSE, <<>>, lastError, attempt, sleeps)
    ELSE LET slept == IF attempt > 0
                      THEN Append(sleeps, delay(attempt))
                      ELSE sleeps
             out == AttemptOnce(ResponseAt(script, attempt + 1))
         IN  IF out.ok
             THEN GResult(TRUE, out.pain_points, NoErr, attempt + 1, slept)
             ELSE IF out.error.msg = "Gemini API" /\ (out.error.status = 400 \/ out.error.marker)
             THEN GResult(FALSE, <<>>, out.error, attempt + 1, slept)
             ELSE GeminiLoop_OffByOne(script, attempt + 1, slept, out.error)

\* the for loop of analyseReviewsWithGemini, from iteration `attempt` on
RECURSIVE GeminiLoop(_, _, _, _)
GeminiLoop(script, attempt, sleeps, lastError) ==
    IF attempt >= MAX_RETRIES
    THEN GResult(FALSE, <<>>, lastError, attempt, sleeps)
    ELSE LET slept == IF attempt > 0
                      THEN Append(sleeps, delay(attempt))
                      ELSE sleeps
             out == AttemptOnce(ResponseAt(script, attempt + 1))
         IN  IF out.ok
             THEN GResult(TRUE, out.pain_points, NoErr, attempt + 1, slept)
             ELSE IF IsFatal400(out.error)
             THEN GResult(FALSE, <<>>, out.error, attempt + 1, slept)
             ELSE GeminiLoop(script, attempt + 1, slept, out.error)

\* reviewsForPrompt: keep the meaningful reviews, cut the text
ReviewsForPrompt(reviews) ==
    LET Meaningful(r) == r.text > MIN_TEXT_LEN
        Line(r) == [score |-> r.score, text |-> Min(r.text, MAX_TEXT_LEN)]
        kept == SelectSeq(reviews, Meaningful)
    IN  [i \in 1..Len(kept) |-> Line(kept[i])]

analyseReviewsWithGemini(reviews, script) ==
    IF Len(ReviewsForPrompt(reviews)) = 0
    THEN GResult(FALSE, <<>>, GErr("No valid review text to analyse", 0, FALSE),
                 0, <<>>)
    ELSE GeminiLoop(script, 0, <<>>,
                    GErr("Gemini call failed after all retries", 0, FALSE))

VARIABLES
    \* --- the store ---
    status,          \* analyses.status of the job ("norow" before the insert)
    app_name,        \* analyses.app_name (title or diagnostic)
    diagLen,         \* number of characters of app_name when it holds a diagnostic (else 0)
    review_counts,   \* analyses.review_counts
    pain_points,     \* rows of pain_points of the job
    cache,           \* review_cache of the subject, by tier
    analysis_count,  \* users.analysis_count of the owner
    now,             \* the clock, in hours
    \* --- the realtime topic analysis:{id} ---
    events,          \* progress events published, in publish order
    \* --- runPipeline ---
    rp_pc, rp_res, currentAnalysisCount,
    \* --- scrape-reviews handler ---
    sr_pc, sr_res, sr_tier, cachedTiers, tierReviews, allReviews,
    \* --- analyse-reviews handler ---
    ar_pc, ar_res, ar_reviews, ar_result,
    insertError,     \* error of the pain_points insert ("none": no error)
    \* --- history (not read by any action) ---
    statusLog,       \* every value written to analyses.status, in order
    fetched,         \* tiers for which gplay.reviews() was called
    ageAtCheck,      \* age in hours of each tier's cache row at the cache check (-1: no row)
    notFound,        \* the store reported the subject as not found
    failedTiers,     \* tiers of the running tier loop whose gplay.reviews() call threw an
                     \* error other than not found (emptied when the loop ends)
    insertBatches,   \* number of committed pain_points inserts
    \* --- one call of analyseReviewsWithGemini on its own ---
    g_pc, g_reviews, g_script, g_result,
    g_prompt,        \* reviewsForPrompt of the call
    \* --- the progress observer (AnalysisProgress) ---
    o_state,         \* the React state {percent, stage, isError, ...}
    o_subscribed,    \* the effect is mounted: channel subscribed
    o_timeout,       \* timeoutRef holds a pending inactivity timer
    o_navTimers,     \* pending navigation timers
    o_navigated,     \* navigate() calls made
    o_lastMsg,       \* history: the last message handled
    o_prevPercent,   \* history: percent before that message
    \* --- the realtime broadcast endpoint ---
    realtime,        \* how the endpoint answers a POST now
    lost,            \* history: some publish of the job was not delivered
    \* --- run-analysis: the owner, the owner's rows, the requests ---
    u_plan,          \* users.plan of the owner ("none": no users row)
    q_rows,          \* analyses.status of the owner's rows, in insert order
    q_req,           \* the CreateJob requests of the owner, by request
    \* --- direct requests of a client ---
    c_calls,         \* requests sent to the table API or to an edge function
    \* --- review_cache as a table, under concurrent scrape-reviews ---
    rc_table,        \* the rows of review_cache
    cj               \* the concurrent invocations of scrape-reviews, by invocation

storeVars == <<status, app_name, diagLen, review_counts, pain_points, cache,
               analysis_count, now, events, lost>>
rpVars == <<rp_pc, rp_res, currentAnalysisCount>>
srVars == <<sr_pc, sr_res, sr_tier, cachedTiers, tierReviews, allReviews>>
arVars == <<ar_pc, ar_res, ar_reviews, ar_result, insertError>>
histVars == <<statusLog, fetched, ageAtCheck, notFound, failedTiers, insertBatches>>
pipeVars == <<storeVars, rpVars, srVars, arVars, histVars>>
gemVars == <<g_pc, g_reviews, g_script, g_result, g_prompt>>
obsVars == <<o_state, o_subscribed, o_timeout, o_navTimers, o_navigated,
             o_lastMsg, o_prevPercent>>
collVars == <<rc_table, cj>>
quotaVars == <<u_plan, q_rows, q_req, c_calls, collVars>>
vars == <<pipeVars, gemVars, obsVars, realtime, quotaVars>>

\* ------------------------------------------------------------------------
\* Shared helpers of the three edge functions
\* ------------------------------------------------------------------------
\* broadcastProgress: one POST to the realtime broadcast endpoint
\* how the endpoint can answer: 2xx, a non-2xx status, no connection
RealtimeAnswers == {"ok", "http_error", "unreachable"}

\* fetch(url, ...): rejects only when there is no HTTP response
FetchSettles(answer) == IF answer = "unreachable" THEN "rejected" ELSE "fulfilled"

\* variant: the .catch() handler is missing
broadcastSettles_NoCatch(answer) == FetchSettles(answer)

\* await fetch(...).catch(() => console.warn(...)): the promise broadcastProgress
\* returns
broadcastSettles(answer) ==
    IF FetchSettles(answer) = "rejected" THEN "fulfilled" ELSE "fulfilled"

\* the position of a handler after `await broadcast(...)`: the next statement,
\* or, had the call raised, out of the handler
AfterBroadcast(next) ==
    IF broadcastSettles(realtime) = "rejected" THEN "crashed" ELSE next

\* the same inside the try block of runPipeline
AfterBroadcastInTry(next) ==
    IF broadcastSettles(realtime) = "rejected" THEN "catch_upd" ELSE next

broadcastProgress(stage, percent) ==
    /\ events' = Append(events, [stage |-> stage, percent |-> percent])
    /\ lost' = (lost \/ realtime # "ok")

\* supabase.from('analyses').update({ status }).eq('id', analysis_id)
UpdateStatus(s) ==
    /\ status' = s
    /\ statusLog' = Append(statusLog, s)

\* ------------------------------------------------------------------------
\* The environment: clock and cron
\* ------------------------------------------------------------------------
Tick ==
    /\ now < MaxNow
    /\ now' = now + 1
    /\ UNCHANGED <<quotaVars, realtime, gemVars, obsVars, status, app_name, diagLen, review_counts, pain_points, cache,
                   analysis_count, events, lost, rpVars, srVars, arVars, histVars>>

\* cron job purge-review-cache: DELETE ... WHERE cached_at < NOW() - 24 hours
Expired(e) == e.present /\ e.cached_at < now - CACHE_TTL_HOURS
PurgeReviewCache ==
    /\ \E t \in TierSet : Expired(cache[t])
    /\ cache' = [t \in TierSet |-> IF Expired(cache[t]) THEN NoEntry ELSE cache[t]]
    /\ UNCHANGED <<quotaVars, realtime, gemVars, obsVars, status, app_name, diagLen, review_counts, pain_points,
                   analysis_count, now, events, lost, rpVars, srVars, arVars, histVars>>

\* ------------------------------------------------------------------------
\* run-analysis: the request handler and runPipeline
\* ------------------------------------------------------------------------
\* Deno.serve handler of run-analysis: insert the row, start the pipeline
CreateJob ==
    /\ rp_pc = "idle"
    /\ status' = "pending"
    /\ statusLog' = <<"pending">>
    /\ currentAnalysisCount' = analysis_count
    /\ rp_pc' = "bc_start"
    /\ UNCHANGED <<quotaVars, realtime, gemVars, obsVars, app_name, diagLen, review_counts, pain_points, cache, analysis_count,
                   now, events, lost, rp_res, srVars, arVars, fetched, ageAtCheck,
                   notFound, failedTiers, insertBatches>>

RpBroadcastStart ==
    /\ rp_pc = "bc_start"
    /\ broadcastProgress("scraping", 2)
    /\ rp_pc' = AfterBroadcastInTry("call_scrape")
    /\ UNCHANGED <<quotaVars, realtime, gemVars, obsVars, status, app_name, diagLen, review_counts, pain_points, cache,
                   analysis_count, now, rp_res, currentAnalysisCount, srVars,
                   arVars, histVars>>

\* callFunction('scrape-reviews', ...): the request reaches the callee
RpCallScrape ==
    /\ rp_pc = "call_scrape"
    /\ sr_pc = "idle"
    /\ sr_pc' = "start"
    /\ rp_pc' = "await_scrape"
    /\ UNCHANGED <<quotaVars, realtime, gemVars, obsVars, storeVars, rp_res, currentAnalysisCount, sr_res, sr_tier,
                   cachedTiers, tierReviews, allReviews, arVars, histVars>>

\* the response of scrape-reviews arrives: if (!scrapeRes.ok) / if (!reviews?.length)
RpScrapeReturns ==
    /\ rp_pc = "await_scrape"
    /\ sr_pc = "done"
    /\ rp_res' = sr_res
    /\ rp_pc' = IF ~sr_res.ok \/ Len(sr_res.reviews) = 0
                THEN "scrape_fail_upd" ELSE "call_analyse"
    /\ UNCHANGED <<quotaVars, realtime, gemVars, obsVars, storeVars, currentAnalysisCount, srVars, arVars, histVars>>

\* the two error updates after scrape-reviews: with the diagnostic when the
\* call failed, status only when it returned no reviews
RpScrapeFailUpd ==
    /\ rp_pc = "scrape_fail_upd"
    /\ UpdateStatus("error")
    /\ app_name' = IF ~rp_res.ok THEN FailedDiag("scrape-reviews", rp_res)
                   ELSE app_name
    /\ IF ~rp_res.ok
       THEN \E n \in BodyLens(rp_res) : diagLen' = FailedDiagLen("scrape-reviews", n)
       ELSE diagLen' = diagLen
    /\ rp_pc' = "error_bc"
    /\ UNCHANGED <<quotaVars, realtime, gemVars, obsVars, review_counts, pain_points, cache, analysis_count, now,
                   events, lost, rp_res, currentAnalysisCount, srVars, arVars,
                   fetched, ageAtCheck, notFound, failedTiers, insertBatches>>

broadcastError ==
    /\ rp_pc = "error_bc"
    /\ broadcastProgress("error", 100)
    /\ rp_pc' = AfterBroadcast("done")
    /\ UNCHANGED <<quotaVars, realtime, gemVars, obsVars, status, app_name, diagLen, review_counts, pain_points, cache,
                   analysis_count, now, rp_res, currentAnalysisCount, srVars,
                   arVars, histVars>>

\* callFunction('analyse-reviews', ...)
RpCallAnalyse ==
    /\ rp_pc = "call_analyse"
    /\ ar_pc = "idle"
    /\ ar_pc' = "start"
    /\ ar_reviews' = rp_res.reviews
    /\ rp_pc' = "await_analyse"
    /\ UNCHANGED <<quotaVars, realtime, gemVars, obsVars, storeVars, rp_res, currentAnalysisCount, srVars, ar_res,
                   ar_result, insertError, histVars>>

\* variant: the response of analyse-reviews is not inspected
RpAnalyseReturns_IgnoreFailure ==
    /\ rp_pc = "await_analyse"
    /\ ar_pc = "done"
    /\ rp_res' = ar_res
    /\ rp_pc' = "incr"
    /\ UNCHANGED <<quotaVars, realtime, gemVars, obsVars, storeVars, currentAnalysisCount, srVars, arVars, histVars>>

RpAnalyseReturns ==
    /\ rp_pc = "await_analyse"
    /\ ar_pc = "done"
    /\ rp_res' = ar_res
    /\ rp_pc' = IF ~ar_res.ok THEN "analyse_fail_upd" ELSE "incr"
    /\ UNCHANGED <<quotaVars, realtime, gemVars, obsVars, storeVars, currentAnalysisCount, srVars, arVars, histVars>>

RpAnalyseFailUpd ==
    /\ rp_pc = "analyse_fail_upd"
    /\ UpdateStatus("error")
    /\ app_name' = FailedDiag("analyse-reviews", rp_res)
    /\ \E n \in BodyLens(rp_res) : diagLen' = FailedDiagLen("analyse-reviews", n)
    /\ rp_pc' = "error_bc"
    /\ UNCHANGED <<quotaVars, realtime, gemVars, obsVars, review_counts, pain_points, cache, analysis_count, now,
                   events, lost, rp_res, currentAnalysisCount, srVars, arVars,
                   fetched, ageAtCheck, notFound, failedTiers, insertBatches>>

\* Step 3: update({ analysis_count: currentAnalysisCount + 1 })
RpIncrement ==
    /\ rp_pc = "incr"
    /\ analysis_count' = currentAnalysisCount + 1
    /\ rp_pc' = "done"
    /\ UNCHANGED <<quotaVars, realtime, gemVars, obsVars, status, app_name, diagLen, review_counts, pain_points, cache, now,
                   events, lost, rp_res, currentAnalysisCount, srVars, arVars,
                   histVars>>

\* catch (err): status error, diagnostic `catch: ...`
RpCatchUpd ==
    /\ rp_pc = "catch_upd"
    /\ UpdateStatus("error")
    /\ app_name' = CatchDiag
    /\ \E n \in MsgLens : diagLen' = CatchDiagLen(n)
    /\ rp_pc' = "error_bc"
    /\ UNCHANGED <<quotaVars, realtime, gemVars, obsVars, review_counts, pain_points, cache, analysis_count, now,
                   events, lost, rp_res, currentAnalysisCount, srVars, arVars,
                   fetched, ageAtCheck, notFound, failedTiers, insertBatches>>

\* ------------------------------------------------------------------------
\* scrape-reviews: the Deno.serve handler
\* ------------------------------------------------------------------------
NotCached == [has |-> FALSE, reviews |-> <<>>]
EmptyCounts == [set |-> FALSE, counts |-> [k \in TierSet |-> 0]]

\* what gplay.app() / gplay.reviews() can throw
NOT_FOUND == "not found"
TRANSIENT == "transient"

\* the cache query: rows of the subject with cached_at >= now - 24h
\* variant: the cache query has no cached_at filter
IsFresh_NoTTL(e) == e.present
IsFresh(e) == e.present /\ e.cached_at >= now - CACHE_TTL_HOURS
CachedTiersOf(c) ==
    [t \in TierSet |-> IF IsFresh(c[t])
                       THEN [has |-> TRUE, reviews |-> c[t].reviews]
                       ELSE NotCached]

\* `continue` / end of the loop body of for (const tier of [1, 2, 3])
NextTier(t) ==
    IF t = 3 THEN sr_pc' = "done_bc" /\ sr_tier' = t
    ELSE sr_pc' = "tier_bc" /\ sr_tier' = t + 1

\* update({ status: 'scraping' })
SrSetScraping ==
    /\ sr_pc = "start"
    /\ UpdateStatus("scraping")
    /\ sr_pc' = "bc5"
    /\ UNCHANGED <<quotaVars, realtime, gemVars, obsVars, app_name, diagLen, review_counts, pain_points, cache, analysis_count,
                   now, events, lost, rpVars, sr_res, sr_tier, cachedTiers,
                   tierReviews, allReviews, arVars, fetched, ageAtCheck,
                   notFound, failedTiers, insertBatches>>

SrBroadcastScraping ==
    /\ sr_pc = "bc5"
    /\ broadcastProgress("scraping", 5)
    /\ sr_pc' = AfterBroadcast("meta")
    /\ UNCHANGED <<quotaVars, realtime, gemVars, obsVars, status, app_name, diagLen, review_counts, pain_points, cache,
                   analysis_count, now, rpVars, sr_res, sr_tier, cachedTiers,
                   tierReviews, allReviews, arVars, histVars>>

\* gplay.app(): found, not found, or another failure (swallowed)
SrMetadata ==
    /\ sr_pc = "meta"
    /\ \E outcome \in {"ok", NOT_FOUND, TRANSIENT} :
          /\ sr_pc' = CASE outcome = "ok" -> "meta_upd"
                        [] outcome = NOT_FOUND -> "meta_nf_upd"
                        [] OTHER -> "cache_check"
          /\ notFound' = (notFound \/ outcome = NOT_FOUND)
          /\ failedTiers' = failedTiers
    /\ UNCHANGED <<quotaVars, realtime, gemVars, obsVars, storeVars, rpVars, sr_res, sr_tier, cachedTiers,
                   tierReviews, allReviews, arVars, statusLog, fetched,
                   ageAtCheck, insertBatches>>

\* update({ app_name: app.title, ... })
SrMetadataUpd ==
    /\ sr_pc = "meta_upd"
    /\ app_name' = TitleName
    /\ diagLen' = 0
    /\ sr_pc' = "cache_check"
    /\ UNCHANGED <<quotaVars, realtime, gemVars, obsVars, status, review_counts, pain_points, cache, analysis_count,
                   now, events, lost, rpVars, sr_res, sr_tier, cachedTiers,
                   tierReviews, allReviews, arVars, histVars>>

\* metadata catch: update({ status: 'error' }); return 404 app_not_found
SrMetadataNotFound ==
    /\ sr_pc = "meta_nf_upd"
    /\ UpdateStatus("error")
    /\ sr_res' = Resp(404, "app_not_found", <<>>)
    /\ sr_pc' = "done"
    /\ UNCHANGED <<quotaVars, realtime, gemVars, obsVars, app_name, diagLen, review_counts, pain_points, cache, analysis_count,
                   now, events, lost, rpVars, sr_tier, cachedTiers, tierReviews,
                   allReviews, arVars, fetched, ageAtCheck, notFound, failedTiers,
                   insertBatches>>

\* Check 24-hour cache for all 3 tiers
SrCacheCheck ==
    /\ sr_pc = "cache_check"
    /\ cachedTiers' = CachedTiersOf(cache)
    /\ ageAtCheck' = [t \in TierSet |-> IF cache[t].present
                                         THEN now - cache[t].cached_at ELSE 0 - 1]
    /\ IF \A t \in TierSet : cachedTiers'[t].has
       THEN sr_pc' = "full_bc" /\ sr_tier' = sr_tier
       ELSE sr_pc' = "tier_bc" /\ sr_tier' = 1
    /\ UNCHANGED <<quotaVars, realtime, gemVars, obsVars, storeVars, rpVars, sr_res, tierReviews, allReviews, arVars,
                   statusLog, fetched, notFound, failedTiers, insertBatches>>

\* isFullyCached: return all three cached tiers
SrFullyCached ==
    /\ sr_pc = "full_bc"
    /\ allReviews' = cachedTiers[1].reviews \o cachedTiers[2].reviews
                        \o cachedTiers[3].reviews
    /\ broadcastProgress("scraping_complete", 40)
    /\ sr_res' = Resp(200, "", allReviews')
    /\ sr_pc' = AfterBroadcast("done")
    /\ UNCHANGED <<quotaVars, realtime, gemVars, obsVars, status, app_name, diagLen, review_counts, pain_points, cache,
                   analysis_count, now, rpVars, sr_tier, cachedTiers,
                   tierReviews, arVars, histVars>>

\* top of the loop body: broadcast the tier stage; a cached tier is pushed
SrTierBroadcast ==
    /\ sr_pc = "tier_bc"
    /\ broadcastProgress(tierProgressMap[sr_tier].stage,
                         tierProgressMap[sr_tier].percent)
    /\ IF cachedTiers[sr_tier].has
       THEN /\ allReviews' = allReviews \o cachedTiers[sr_tier].reviews
            /\ IF AfterBroadcast("next") = "next"
               THEN NextTier(sr_tier)
               ELSE sr_pc' = AfterBroadcast("next") /\ sr_tier' = sr_tier
       ELSE /\ allReviews' = allReviews
            /\ sr_pc' = AfterBroadcast("tier_fetch")
            /\ sr_tier' = sr_tier
    /\ UNCHANGED <<quotaVars, realtime, gemVars, obsVars, status, app_name, diagLen, review_counts, pain_points, cache,
                   analysis_count, now, rpVars, sr_res, cachedTiers,
                   tierReviews, arVars, histVars>>

\* variant: any thrown error of gplay.reviews() ends the collection
SrTierFetch_HardFail ==
    /\ sr_pc = "tier_fetch"
    /\ fetched' = fetched \cup {sr_tier}
    /\ \/ \E rawReviews \in RawLists :
             /\ tierReviews' = TierReviewsOf(rawReviews, sr_tier)
             /\ notFound' = notFound
             /\ failedTiers' = failedTiers
             /\ IF Len(tierReviews') > 0
                THEN sr_pc' = "tier_cache" /\ sr_tier' = sr_tier
                ELSE NextTier(sr_tier)
       \/ /\ tierReviews' = <<>>
          /\ notFound' = notFound
          /\ failedTiers' = failedTiers \cup {sr_tier}
          /\ sr_pc' = "tier_nf_upd"
          /\ sr_tier' = sr_tier
       \/ /\ tierReviews' = <<>>
          /\ notFound' = TRUE
          /\ failedTiers' = failedTiers
          /\ sr_pc' = "tier_nf_upd"
          /\ sr_tier' = sr_tier
    /\ UNCHANGED <<quotaVars, realtime, gemVars, obsVars, storeVars, rpVars, sr_res, cachedTiers, allReviews, arVars,
                   statusLog, ageAtCheck, insertBatches>>

\* variant: the tier is cached whatever was collected
SrTierFetch_CacheEmpty ==
    /\ sr_pc = "tier_fetch"
    /\ fetched' = fetched \cup {sr_tier}
    /\ \/ \E rawReviews \in RawLists :
             /\ tierReviews' = TierReviewsOf(rawReviews, sr_tier)
             /\ notFound' = notFound
             /\ failedTiers' = failedTiers
             /\ sr_pc' = "tier_cache" /\ sr_tier' = sr_tier
       \/ /\ tierReviews' = <<>>
          /\ notFound' = notFound
          /\ failedTiers' = failedTiers \cup {sr_tier}
          /\ NextTier(sr_tier)
       \/ /\ tierReviews' = <<>>
          /\ notFound' = TRUE
          /\ failedTiers' = failedTiers
          /\ sr_pc' = "tier_nf_upd"
          /\ sr_tier' = sr_tier
    /\ UNCHANGED <<quotaVars, realtime, gemVars, obsVars, storeVars, rpVars, sr_res, cachedTiers, allReviews, arVars,
                   statusLog, ageAtCheck, insertBatches>>

\* gplay.reviews() for a tier that is not cached
SrTierFetch ==
    /\ sr_pc = "tier_fetch"
    /\ fetched' = fetched \cup {sr_tier}
    /\ \/ \E rawReviews \in RawLists :
             /\ tierReviews' = TierReviewsOf(rawReviews, sr_tier)
             /\ notFound' = notFound
             /\ failedTiers' = failedTiers
             /\ IF Len(tierReviews') > 0
                THEN sr_pc' = "tier_cache" /\ sr_tier' = sr_tier
                ELSE NextTier(sr_tier)
       \/ /\ tierReviews' = <<>>
          /\ notFound' = notFound
          /\ failedTiers' = failedTiers \cup {sr_tier}
          /\ NextTier(sr_tier)
       \/ /\ tierReviews' = <<>>
          /\ notFound' = TRUE
          /\ failedTiers' = failedTiers
          /\ sr_pc' = "tier_nf_upd"
          /\ sr_tier' = sr_tier
    /\ UNCHANGED <<quotaVars, realtime, gemVars, obsVars, storeVars, rpVars, sr_res, cachedTiers, allReviews, arVars,
                   statusLog, ageAtCheck, insertBatches>>

\* variant: a not-found tier is skipped like a transient failure
SrTierNotFound_Swallowed ==
    /\ sr_pc = "tier_nf_upd"
    /\ NextTier(sr_tier)
    /\ UNCHANGED <<quotaVars, realtime, gemVars, obsVars, storeVars, rpVars, sr_res, cachedTiers,
                   tierReviews, allReviews, arVars, histVars>>

\* tier catch, not found: update({ status: 'error' }); return 404
SrTierNotFound ==
    /\ sr_pc = "tier_nf_upd"
    /\ UpdateStatus("error")
    /\ sr_res' = Resp(404, "app_not_found", <<>>)
    /\ sr_pc' = "done"
    /\ UNCHANGED <<quotaVars, realtime, gemVars, obsVars, app_name, diagLen, review_counts, pain_points, cache, analysis_count,
                   now, events, lost, rpVars, sr_tier, cachedTiers, tierReviews,
                   allReviews, arVars, fetched, ageAtCheck, notFound, failedTiers,
                   insertBatches>>

\* review_cache upsert on (app_id, star_tier), then allReviews.push
SrTierCache ==
    /\ sr_pc = "tier_cache"
    /\ cache' = [cache EXCEPT ![sr_tier] =
                    [present |-> TRUE, cached_at |-> now, reviews |-> tierReviews]]
    /\ allReviews' = allReviews \o tierReviews
    /\ NextTier(sr_tier)
    /\ UNCHANGED <<quotaVars, realtime, gemVars, obsVars, status, app_name, diagLen, review_counts, pain_points,
                   analysis_count, now, events, lost, rpVars, sr_res, cachedTiers,
                   tierReviews, arVars, histVars>>

\* variant: the empty guard after the loop is missing
SrBroadcastComplete_NoGuard ==
    /\ sr_pc = "done_bc"
    /\ broadcastProgress("scraping_complete", 40)
    /\ sr_pc' = AfterBroadcast("counts_upd")
    /\ failedTiers' = {}
    /\ UNCHANGED <<quotaVars, realtime, gemVars, obsVars, status, app_name, diagLen, review_counts, pain_points, cache,
                   analysis_count, now, rpVars, sr_res, sr_tier, cachedTiers,
                   tierReviews, allReviews, arVars, statusLog, fetched, ageAtCheck,
                   notFound, insertBatches>>

SrBroadcastComplete ==
    /\ sr_pc = "done_bc"
    /\ broadcastProgress("scraping_complete", 40)
    /\ sr_pc' = AfterBroadcast(IF Len(allReviews) = 0 THEN "empty_upd" ELSE "counts_upd")
    /\ failedTiers' = {}
    /\ UNCHANGED <<quotaVars, realtime, gemVars, obsVars, status, app_name, diagLen, review_counts, pain_points, cache,
                   analysis_count, now, rpVars, sr_res, sr_tier, cachedTiers,
                   tierReviews, allReviews, arVars, statusLog, fetched, ageAtCheck,
                   notFound, insertBatches>>

\* Guard: no reviews collected at all
SrNoReviews ==
    /\ sr_pc = "empty_upd"
    /\ UpdateStatus("error")
    /\ sr_res' = Resp(500, "scraping_failed", <<>>)
    /\ sr_pc' = "done"
    /\ UNCHANGED <<quotaVars, realtime, gemVars, obsVars, app_name, diagLen, review_counts, pain_points, cache, analysis_count,
                   now, events, lost, rpVars, sr_tier, cachedTiers, tierReviews,
                   allReviews, arVars, fetched, ageAtCheck, notFound, failedTiers,
                   insertBatches>>

\* update({ review_counts }); return { reviews, cached: false }
SrReviewCounts ==
    /\ sr_pc = "counts_upd"
    /\ review_counts' = [set |-> TRUE, counts |-> ReviewCountsOf(allReviews)]
    /\ sr_res' = Resp(200, "", allReviews)
    /\ sr_pc' = "done"
    /\ UNCHANGED <<quotaVars, realtime, gemVars, obsVars, status, app_name, diagLen, pain_points, cache, analysis_count, now,
                   events, lost, rpVars, sr_tier, cachedTiers, tierReviews,
                   allReviews, arVars, histVars>>

\* ------------------------------------------------------------------------
\* analyse-reviews: the Deno.serve handler
\* ------------------------------------------------------------------------
validCategories == {"Bug", "UX Issue", "Performance", "Feature Gap", "Privacy", "Support"}
validSeverities == {"High", "Medium", "Low"}
validPhases == {"Quick Win", "Short-Term", "Long-Term"}
validEffortImpact == {"Low", "Medium", "High"}

\* the predicate of result.pain_points.filter(...)
IsValidPainPoint(pp) ==
    /\ pp.category \in validCategories
    /\ pp.severity \in validSeverities
    /\ pp.frequencyIsNumber
    /\ pp.descriptionIsString
    /\ pp.quotesIsArray
    /\ pp.improvement.present
    /\ pp.improvement.recommendationIsString
    /\ pp.improvement.phase \in validPhases
    /\ pp.improvement.effort \in validEffortImpact
    /\ pp.improvement.impact \in validEffortImpact

validPainPoints(result) == SelectSeq(result, IsValidPainPoint)

\* one row of painPointRows
\* variant: all the quotes are kept
PainPointRow_NoSlice(pp) ==
    [category |-> pp.category, severity |-> pp.severity,
     frequency |-> pp.frequency,
     representative_quotes |-> pp.representative_quotes,
     improvement |-> pp.improvement]

PainPointRow(pp) ==
    [category |-> pp.category, severity |-> pp.severity,
     frequency |-> pp.frequency,
     representative_quotes |-> Slice(pp.representative_quotes, MAX_QUOTES),
     improvement |-> pp.improvement]
painPointRows(valid) == [i \in 1..Len(valid) |-> PainPointRow(valid[i])]

\* the column constraints of public.pain_points that a row can violate
RowAccepted(row) ==
    /\ row.category \in validCategories
    /\ row.severity \in validSeverities
    /\ row.frequency >= 0

\* what the remote extraction service answers during one call
PipelineScripts ==
    { << Ok200(<< JsonDoc(l) >>) >> : l \in PainPointLists }
    \cup { << Http(429) >>, << Http(400) >>,
           << Http(429), Ok200(<< FenceJson, Ws, JsonDoc(<< GoodPP(3) >>), Ws, Fence >>) >> }

\* the extraction starts without the status write
ArSetAnalysing_Skipped ==
    /\ ar_pc = "start"
    /\ status' = status
    /\ statusLog' = statusLog
    /\ ar_pc' = "bc50"
    /\ UNCHANGED <<quotaVars, realtime, gemVars, obsVars, app_name, diagLen, review_counts, pain_points, cache, analysis_count,
                   now, events, lost, rpVars, srVars, ar_res, ar_reviews, insertError, ar_result,
                   fetched, ageAtCheck, notFound, failedTiers, insertBatches>>

\* update({ status: 'analysing' })
ArSetAnalysing ==
    /\ ar_pc = "start"
    /\ UpdateStatus("analysing")
    /\ ar_pc' = "bc50"
    /\ UNCHANGED <<quotaVars, realtime, gemVars, obsVars, app_name, diagLen, review_counts, pain_points, cache, analysis_count,
                   now, events, lost, rpVars, srVars, ar_res, ar_reviews, insertError, ar_result,
                   fetched, ageAtCheck, notFound, failedTiers, insertBatches>>

ArBroadcastStart ==
    /\ ar_pc = "bc50"
    /\ broadcastProgress("ai_analysis_start", 50)
    /\ ar_pc' = AfterBroadcast("gemini")
    /\ UNCHANGED <<quotaVars, realtime, gemVars, obsVars, status, app_name, diagLen, review_counts, pain_points, cache,
                   analysis_count, now, rpVars, srVars, ar_res, ar_reviews, insertError,
                   ar_result, histVars>>

\* result = await analyseReviewsWithGemini(reviews, geminiApiKey)
ArGemini ==
    /\ ar_pc = "gemini"
    /\ \E script \in PipelineScripts :
          LET g == analyseReviewsWithGemini(ar_reviews, script)
          IN  /\ ar_result' = g.pain_points
              /\ ar_pc' = IF g.ok THEN "bc85" ELSE "gemini_fail_upd"
    /\ UNCHANGED <<quotaVars, realtime, gemVars, obsVars, storeVars, rpVars, srVars, ar_res, ar_reviews, insertError, histVars>>

\* catch: update({ status: 'error' }); return 503 gemini_unavailable
ArGeminiFailed ==
    /\ ar_pc = "gemini_fail_upd"
    /\ UpdateStatus("error")
    /\ ar_res' = Resp(503, "gemini_unavailable", <<>>)
    /\ ar_pc' = "done"
    /\ UNCHANGED <<quotaVars, realtime, gemVars, obsVars, app_name, diagLen, review_counts, pain_points, cache, analysis_count,
                   now, events, lost, rpVars, srVars, ar_reviews, insertError, ar_result,
                   fetched, ageAtCheck, notFound, failedTiers, insertBatches>>

\* broadcast 85, then validate the pain points
ArBroadcastExtracted ==
    /\ ar_pc = "bc85"
    /\ broadcastProgress("ai_analysis_complete", 85)
    /\ ar_pc' = AfterBroadcast(IF Len(validPainPoints(ar_result)) = 0
                               THEN "invalid_upd" ELSE "bc95")
    /\ UNCHANGED <<quotaVars, realtime, gemVars, obsVars, status, app_name, diagLen, review_counts, pain_points, cache,
                   analysis_count, now, rpVars, srVars, ar_res, ar_reviews, insertError,
                   ar_result, histVars>>

\* variant: an empty validated list goes on to the insert
ArNoValidPainPoints_Continue ==
    /\ ar_pc = "invalid_upd"
    /\ status' = status
    /\ statusLog' = statusLog
    /\ ar_res' = ar_res
    /\ ar_pc' = "bc95"
    /\ UNCHANGED <<quotaVars, realtime, gemVars, obsVars, app_name, diagLen, review_counts, pain_points, cache, analysis_count,
                   now, events, lost, rpVars, srVars, ar_reviews, insertError, ar_result,
                   fetched, ageAtCheck, notFound, failedTiers, insertBatches>>

\* no valid pain point: update({ status: 'error' }); return 503
ArNoValidPainPoints ==
    /\ ar_pc = "invalid_upd"
    /\ UpdateStatus("error")
    /\ ar_res' = Resp(503, "gemini_unavailable", <<>>)
    /\ ar_pc' = "done"
    /\ UNCHANGED <<quotaVars, realtime, gemVars, obsVars, app_name, diagLen, review_counts, pain_points, cache, analysis_count,
                   now, events, lost, rpVars, srVars, ar_reviews, insertError, ar_result,
                   fetched, ageAtCheck, notFound, failedTiers, insertBatches>>

ArBroadcastSaving ==
    /\ ar_pc = "bc95"
    /\ broadcastProgress("saving_results", 95)
    /\ ar_pc' = AfterBroadcast("insert")
    /\ UNCHANGED <<quotaVars, realtime, gemVars, obsVars, status, app_name, diagLen, review_counts, pain_points, cache,
                   analysis_count, now, rpVars, srVars, ar_res, ar_reviews, insertError,
                   ar_result, histVars>>

\* supabase.from('pain_points').insert(painPointRows): one statement, it
\* commits every row or none
\* variant: insertError is not inspected
ArInsert_IgnoreError ==
    /\ ar_pc = "insert"
    /\ LET rows == painPointRows(validPainPoints(ar_result))
       IN  \E storeUp \in BOOLEAN :
              IF storeUp /\ \A i \in 1..Len(rows) : RowAccepted(rows[i])
              THEN /\ pain_points' = pain_points \o rows
                   /\ insertBatches' = insertBatches + 1
                   /\ insertError' = "none"
                   /\ ar_pc' = "complete_upd"
              ELSE /\ pain_points' = pain_points
                   /\ insertBatches' = insertBatches
                   /\ insertError' = IF storeUp THEN "check_violation" ELSE "unavailable"
                   /\ ar_pc' = "complete_upd"
    /\ UNCHANGED <<quotaVars, realtime, gemVars, obsVars, status, app_name, diagLen, review_counts, cache, analysis_count,
                   now, events, lost, rpVars, srVars, ar_res, ar_reviews, ar_result,
                   statusLog, fetched, ageAtCheck, notFound, failedTiers>>

ArInsert ==
    /\ ar_pc = "insert"
    /\ LET rows == painPointRows(validPainPoints(ar_result))
       IN  \E storeUp \in BOOLEAN :
              IF storeUp /\ \A i \in 1..Len(rows) : RowAccepted(rows[i])
              THEN /\ pain_points' = pain_points \o rows
                   /\ insertBatches' = insertBatches + 1
                   /\ insertError' = "none"
                   /\ ar_pc' = "complete_upd"
              ELSE /\ pain_points' = pain_points
                   /\ insertBatches' = insertBatches
                   /\ insertError' = IF storeUp THEN "check_violation" ELSE "unavailable"
                   /\ ar_pc' = "insert_fail_upd"
    /\ UNCHANGED <<quotaVars, realtime, gemVars, obsVars, status, app_name, diagLen, review_counts, cache, analysis_count,
                   now, events, lost, rpVars, srVars, ar_res, ar_reviews, ar_result,
                   statusLog, fetched, ageAtCheck, notFound, failedTiers>>

\* insertError: update({ status: 'error' }); return 500 db_insert_failed
ArInsertFailed ==
    /\ ar_pc = "insert_fail_upd"
    /\ UpdateStatus("error")
    /\ ar_res' = Resp(500, "db_insert_failed", <<>>)
    /\ ar_pc' = "done"
    /\ UNCHANGED <<quotaVars, realtime, gemVars, obsVars, app_name, diagLen, review_counts, pain_points, cache, analysis_count,
                   now, events, lost, rpVars, srVars, ar_reviews, insertError, ar_result,
                   fetched, ageAtCheck, notFound, failedTiers, insertBatches>>

\* Mark analysis complete
ArSetComplete ==
    /\ ar_pc = "complete_upd"
    /\ UpdateStatus("complete")
    /\ ar_pc' = "bc100"
    /\ UNCHANGED <<quotaVars, realtime, gemVars, obsVars, app_name, diagLen, review_counts, pain_points, cache, analysis_count,
                   now, events, lost, rpVars, srVars, ar_res, ar_reviews, insertError, ar_result,
                   fetched, ageAtCheck, notFound, failedTiers, insertBatches>>

\* broadcast('complete', 100); return 200
ArBroadcastComplete ==
    /\ ar_pc = "bc100"
    /\ broadcastProgress("complete", 100)
    /\ ar_res' = Resp(200, "", <<>>)
    /\ ar_pc' = AfterBroadcast("done")
    /\ UNCHANGED <<quotaVars, realtime, gemVars, obsVars, status, app_name, diagLen, review_counts, pain_points, cache,
                   analysis_count, now, rpVars, srVars, ar_reviews, insertError, ar_result,
                   histVars>>

\* ------------------------------------------------------------------------
\* The transport between run-analysis and its sibling functions
\* ------------------------------------------------------------------------
\* the gateway answers 504 while the callee is still running
GatewayTimeout ==
    /\ \/ rp_pc = "await_scrape" /\ sr_pc \notin {"idle", "done"}
          /\ rp_pc' = "scrape_fail_upd"
       \/ rp_pc = "await_analyse" /\ ar_pc \notin {"idle", "done"}
          /\ rp_pc' = "analyse_fail_upd"
    /\ rp_res' = Resp(504, "gateway_timeout", <<>>)
    /\ UNCHANGED <<quotaVars, realtime, gemVars, obsVars, storeVars, currentAnalysisCount, srVars, arVars, histVars>>

\* fetch() rejects: the connection is lost, the callee is not told
FetchThrows ==
    /\ rp_pc \in {"await_scrape", "await_analyse"}
    /\ rp_pc' = "catch_upd"
    /\ UNCHANGED <<quotaVars, realtime, gemVars, obsVars, storeVars, rp_res, currentAnalysisCount, srVars, arVars,
                   histVars>>

\* ------------------------------------------------------------------------
\* Specifications of the pipeline
\* ------------------------------------------------------------------------
\* ------------------------------------------------------------------------
\* run-analysis: the Deno.serve handler (CreateJob), for one owner
\* ------------------------------------------------------------------------
FREE_TIER_LIMIT == 5
Requests == 1..MaxRequests

\* an identifier is a sequence of characters, each given by its class:
\* L letter, D digit, U underscore, P dot, S whitespace, X anything else
CharClasses == {"L", "D", "U", "P", "S", "X"}

\* /^[a-zA-Z][a-zA-Z0-9_]*(\.[a-zA-Z][a-zA-Z0-9_]*)+$/ as an automaton
PatternStep(q, c) ==
    CASE q = "start" /\ c = "L" -> "first"
      [] q = "first" /\ c \in {"L", "D", "U"} -> "first"
      [] q = "first" /\ c = "P" -> "dot"
      [] q = "dot" /\ c = "L" -> "later"
      [] q = "later" /\ c \in {"L", "D", "U"} -> "later"
      [] q = "later" /\ c = "P" -> "dot"
      [] OTHER -> "dead"
RECURSIVE PatternRun(_, _, _)
PatternRun(s, i, q) ==
    IF i > Len(s) THEN q ELSE PatternRun(s, i + 1, PatternStep(q, s[i]))
\* variant: the group of dotted segments may be absent
packageIdPattern_OneSegment(s) == PatternRun(s, 1, "start") \in {"first", "later"}

\* packageIdPattern.test(appId)
packageIdPattern(s) == PatternRun(s, 1, "start") = "later"

\* String.prototype.trim
RECURSIVE TrimStart(_)
TrimStart(s) == IF s # <<>> /\ Head(s) = "S" THEN TrimStart(Tail(s)) ELSE s
RECURSIVE TrimEnd(_)
TrimEnd(s) ==
    IF s # <<>> /\ s[Len(s)] = "S" THEN TrimEnd(SubSeq(s, 1, Len(s) - 1)) ELSE s
Trim(s) == TrimEnd(TrimStart(s))

\* the Authorization header: absent, a token that does not decode, a token
\* without sub, a token with sub
AuthHeaders == {"missing", "malformed", "nosub", "ok"}

Body(kind, hasAppId, app_id) == [kind |-> kind, hasAppId |-> hasAppId, app_id |-> app_id]
Request(auth, body) == [auth |-> auth, body |-> body]
NoRequest == Request("missing", Body("unparseable", FALSE, <<>>))

HResp(code, err) == [status |-> code, error |-> err]
NoHResp == HResp(0, "")

\* the checks of the handler that come before the first statement on the
\* store: Authorization header, JWT payload, body, app_id, packageIdPattern
Validate(req) ==
    IF req.auth = "missing" THEN HResp(401, "unauthenticated")
    ELSE IF req.auth = "malformed" THEN HResp(401, "invalid_token_format")
    ELSE IF req.auth = "nosub" THEN HResp(401, "unauthenticated")
    ELSE IF req.body.kind = "unparseable" THEN HResp(400, "invalid_request_body")
    ELSE IF ~req.body.hasAppId \/ Trim(req.body.app_id) = <<>>
    THEN HResp(400, "invalid_app_id")
    ELSE IF ~packageIdPattern(Trim(req.body.app_id)) THEN HResp(400, "invalid_app_id")
    ELSE NoHResp

\* one request: position, input, response, userRow.plan, analysis_count read
\* after the upsert, index of the row inserted
Req(pc, input, resp, plan, count, row) ==
    [pc |-> pc, input |-> input, resp |-> resp, plan |-> plan,
     currentAnalysisCount |-> count, row |-> row]
OffReq == Req("off", NoRequest, NoHResp, "none", 0, 0)
IdleReq(input) == Req("idle", input, NoHResp, "none", 0, 0)

QuotaIdle ==
    /\ u_plan = "none"
    /\ q_rows = <<>>
    /\ q_req = [r \in Requests |-> OffReq]

jobVars == <<status, app_name, diagLen, review_counts, pain_points, cache, now, events,
             lost, rpVars, srVars, arVars, histVars>>

\* identifiers: every string of up to 3 characters over L, D, P, S and some
\* longer ones
ShortIds ==
    UNION { [1..n -> {"L", "D", "P", "S"}] : n \in 0..3 }
AppIds ==
    ShortIds \cup
    { <<"L", "D", "U", "P", "L", "U", "D">>, <<"L", "P", "L", "P", "L">>,
      <<"S", "L", "P", "L">>, <<"L", "P", "L", "S">>, <<"S", "L", "P", "L", "S">>,
      <<"L", "P", "P", "L">>, <<"L", "X", "P", "L">>, <<"L", "P", "L", "X">>,
      <<"L", "S", "P", "L">>, <<"U", "P", "L">>, <<"L", "P", "U">>,
      <<"L", "P", "D", "L">>, <<"X">>, <<"L", "P", "L", "P">> }
Bodies ==
    { Body("unparseable", FALSE, <<>>), Body("json", FALSE, <<>>) }
    \cup { Body("json", TRUE, id) : id \in AppIds }
RequestInputs == { Request(a, b) : a \in AuthHeaders, b \in Bodies }

\* the requests of the concurrent runs: a well-formed one and a malformed one
ConcurrentInputs ==
    { Request("ok", Body("json", TRUE, <<"L", "P", "L">>)),
      Request("ok", Body("json", TRUE, <<"L">>)) }

\* lines 454-510: the request arrives; it is answered 401/400 or goes on to
\* the users select
HReceive(r) ==
    /\ q_req[r].pc = "idle"
    /\ q_req' = [q_req EXCEPT ![r].resp = Validate(q_req[r].input),
                              ![r].pc = IF Validate(q_req[r].input) = NoHResp
                                        THEN "select_user" ELSE "done"]
    /\ UNCHANGED <<u_plan, q_rows, analysis_count, jobVars, c_calls, collVars, realtime, gemVars, obsVars>>

\* users select: plan, analysis_count (no row: PGRST116, userRow is null)
HSelectUser(r) ==
    /\ q_req[r].pc = "select_user"
    /\ q_req' = [q_req EXCEPT ![r].plan = u_plan,
                              ![r].pc = IF u_plan = "free" THEN "count" ELSE "upsert"]
    /\ UNCHANGED <<u_plan, q_rows, analysis_count, jobVars, c_calls, collVars, realtime, gemVars, obsVars>>

\* variant: the limit is compared with > instead of >=
HCountCheck_OffByOne(r) ==
    /\ q_req[r].pc = "count"
    /\ q_req' = IF Len(q_rows) > FREE_TIER_LIMIT
                THEN [q_req EXCEPT ![r].pc = "done",
                                   ![r].resp = HResp(403, "free_tier_limit_reached")]
                ELSE [q_req EXCEPT ![r].pc = "upsert"]
    /\ UNCHANGED <<u_plan, q_rows, analysis_count, jobVars, c_calls, collVars, realtime, gemVars, obsVars>>

\* if (userRow?.plan === 'free'): count of the owner's analyses rows
HCountCheck(r) ==
    /\ q_req[r].pc = "count"
    /\ q_req' = IF Len(q_rows) >= FREE_TIER_LIMIT
                THEN [q_req EXCEPT ![r].pc = "done",
                                   ![r].resp = HResp(403, "free_tier_limit_reached")]
                ELSE [q_req EXCEPT ![r].pc = "upsert"]
    /\ UNCHANGED <<u_plan, q_rows, analysis_count, jobVars, c_calls, collVars, realtime, gemVars, obsVars>>

\* users upsert({ id }, { ignoreDuplicates: true }): a new row gets the
\* column defaults, an existing row is left alone
HUpsertUser(r) ==
    /\ q_req[r].pc = "upsert"
    /\ u_plan' = IF u_plan = "none" THEN "free" ELSE u_plan
    /\ analysis_count' = IF u_plan = "none" THEN 0 ELSE analysis_count
    /\ q_req' = [q_req EXCEPT ![r].pc = "fresh"]
    /\ UNCHANGED <<q_rows, jobVars, c_calls, collVars, realtime, gemVars, obsVars>>

\* re-fetch of the users row: effectiveUserRow.analysis_count
HFreshSelect(r) ==
    /\ q_req[r].pc = "fresh"
    /\ q_req' = [q_req EXCEPT ![r].currentAnalysisCount = analysis_count,
                              ![r].pc = "insert"]
    /\ UNCHANGED <<u_plan, q_rows, analysis_count, jobVars, c_calls, collVars, realtime, gemVars, obsVars>>

\* analyses insert with status 'pending'; runPipeline is started and the
\* response { analysis_id, status: 'started' } is returned
HInsert(r) ==
    /\ q_req[r].pc = "insert"
    /\ q_rows' = Append(q_rows, "pending")
    /\ q_req' = [q_req EXCEPT ![r].row = Len(q_rows) + 1,
                              ![r].resp = HResp(200, "started"),
                              ![r].pc = "pipeline"]
    /\ UNCHANGED <<u_plan, analysis_count, jobVars, c_calls, collVars, realtime, gemVars, obsVars>>

\* runPipeline up to its last status write, by its outcome: 'complete'
\* written by analyse-reviews, or 'error' on one of the failure paths
QPipelineEnds(r) ==
    /\ q_req[r].pc = "pipeline"
    /\ \E outcome \in Terminal :
          /\ q_rows' = [q_rows EXCEPT ![q_req[r].row] = outcome]
          /\ q_req' = [q_req EXCEPT ![r].pc = IF outcome = "complete"
                                              THEN "incr" ELSE "done"]
    /\ UNCHANGED <<u_plan, analysis_count, jobVars, c_calls, collVars, realtime, gemVars, obsVars>>

\* update({ analysis_count: currentAnalysisCount + 1 }) of that pipeline
QIncrement(r) ==
    /\ q_req[r].pc = "incr"
    /\ analysis_count' = q_req[r].currentAnalysisCount + 1
    /\ q_req' = [q_req EXCEPT ![r].pc = "done"]
    /\ UNCHANGED <<u_plan, q_rows, jobVars, c_calls, collVars, realtime, gemVars, obsVars>>

\* the owner before the requests: no users row, or a plan, the statuses of
\* the rows created so far and the counter those rows have left
Owner(plan, rows, count) == [plan |-> plan, rows |-> rows, count |-> count]
Rows(nComplete, nError) ==
    [i \in 1..(nComplete + nError) |-> IF i <= nComplete THEN "complete" ELSE "error"]
Owners ==
    { Owner("none", <<>>, 0), Owner("free", <<>>, 0),
      Owner("free", Rows(4, 0), 4), Owner("free", Rows(0, 4), 0),
      Owner("free", Rows(0, 5), 0), Owner("free", Rows(3, 2), 3),
      Owner("free", Rows(5, 0), 5), Owner("pro", Rows(5, 0), 5) }

CacheEntries(t) ==
    { NoEntry,
      [present |-> TRUE, cached_at |-> StartHour - 23, reviews |-> CachedReviews(t)],
      [present |-> TRUE, cached_at |-> StartHour - 25, reviews |-> CachedReviews(t)] }

\* the concurrent invocations of scrape-reviews: they have the same subject;
\* the rows of another subject are in the table as an earlier run left them
CollJobs == 1..MaxCollectors
Subject == "com.a"
OtherSubject == "com.b"
OffJob(j) ==
    [app_id |-> Subject, pc |-> "off", tier |-> 1, cachedTiers |-> {},
     tierReviews |-> <<>>]

\* the job before the request, over a given review_cache
JobInit(c) ==
    /\ status = "norow"
    /\ c_calls = 0
    /\ rc_table = {}
    /\ cj = [j \in CollJobs |-> OffJob(j)]
    /\ app_name = NullName
    /\ diagLen = 0
    /\ review_counts = EmptyCounts
    /\ pain_points = <<>>
    /\ cache = c
    /\ now = StartHour
    /\ events = <<>>
    /\ lost = FALSE
    /\ rp_pc = "idle"
    /\ rp_res = NoResp
    /\ currentAnalysisCount = 0
    /\ sr_pc = "idle"
    /\ sr_res = NoResp
    /\ sr_tier = 1
    /\ cachedTiers = [t \in TierSet |-> NotCached]
    /\ tierReviews = <<>>
    /\ allReviews = <<>>
    /\ ar_pc = "idle"
    /\ ar_res = NoResp
    /\ ar_reviews = <<>>
    /\ ar_result = <<>>
    /\ insertError = "none"
    /\ statusLog = <<>>
    /\ fetched = {}
    /\ ageAtCheck = [t \in TierSet |-> 0 - 1]
    /\ notFound = FALSE
    /\ failedTiers = {}
    /\ insertBatches = 0

PipeInit(c) ==
    /\ JobInit(c)
    /\ analysis_count = 0

NoGResult == GResult(FALSE, <<>>, NoErr, 0, <<>>)
GemIdle ==
    /\ g_pc = "off"
    /\ g_reviews = <<>>
    /\ g_script = <<>>
    /\ g_result = NoGResult
    /\ g_prompt = <<>>

\* useState initial value
InitialState ==
    [percent |-> 0, stage |-> "pending", isError |-> FALSE,
     isComplete |-> FALSE, isTimedOut |-> FALSE]
Msg(hasPayload, hasStage, stage, hasPercent, percent) ==
    [hasPayload |-> hasPayload, hasStage |-> hasStage, stage |-> stage,
     hasPercent |-> hasPercent, percent |-> percent]
NoMsg == Msg(FALSE, FALSE, "", FALSE, 0)
ObsIdle ==
    /\ o_state = InitialState
    /\ o_subscribed = FALSE
    /\ o_timeout = FALSE
    /\ o_navTimers = 0
    /\ o_navigated = 0
    /\ o_lastMsg = NoMsg
    /\ o_prevPercent = 0

Init ==
    /\ \E c \in [TierSet -> UNION {CacheEntries(t) : t \in TierSet}] :
          /\ \A t \in TierSet : c[t] \in CacheEntries(t)
          /\ PipeInit(c)
    /\ GemIdle
    /\ ObsIdle
    /\ realtime = "ok"
    /\ QuotaIdle

RunPipeline ==
    \/ RpBroadcastStart \/ RpCallScrape \/ RpScrapeReturns \/ RpScrapeFailUpd
    \/ broadcastError \/ RpCallAnalyse \/ RpAnalyseReturns \/ RpAnalyseFailUpd
    \/ RpIncrement

ScrapeReviews ==
    \/ SrSetScraping \/ SrBroadcastScraping \/ SrMetadata \/ SrMetadataUpd
    \/ SrMetadataNotFound \/ SrCacheCheck \/ SrFullyCached \/ SrTierBroadcast
    \/ SrTierFetch \/ SrTierNotFound \/ SrTierCache \/ SrBroadcastComplete
    \/ SrNoReviews \/ SrReviewCounts

AnalyseReviews ==
    \/ ArSetAnalysing \/ ArBroadcastStart \/ ArGemini \/ ArGeminiFailed
    \/ ArBroadcastExtracted \/ ArNoValidPainPoints \/ ArBroadcastSaving
    \/ ArInsert \/ ArInsertFailed \/ ArSetComplete \/ ArBroadcastComplete

Next ==
    \/ CreateJob \/ RunPipeline \/ ScrapeReviews \/ AnalyseReviews
    \/ Tick \/ PurgeReviewCache

Spec == Init /\ [][Next]_vars

\* the same pipeline when the calls between the functions can time out or
\* lose their connection
NextNet == Next \/ GatewayTimeout \/ FetchThrows \/ RpCatchUpd

\* the caches the transport faults are explored over: the three tiers are in
\* the same condition (absent, fresh or stale)
InitNet ==
    /\ \E c \in [TierSet -> UNION {CacheEntries(t) : t \in TierSet}] :
          /\ \A t \in TierSet : c[t] \in CacheEntries(t)
          /\ \A t \in TierSet : c[t].present = c[1].present
          /\ \A t \in TierSet : c[t].cached_at = c[1].cached_at
          /\ PipeInit(c)
    /\ GemIdle
    /\ ObsIdle
    /\ realtime = "ok"
    /\ QuotaIdle

SpecNet == InitNet /\ [][NextNet]_vars

\* ------------------------------------------------------------------------
\* One call of analyseReviewsWithGemini against a scripted remote service
\* ------------------------------------------------------------------------
GoodAnswers ==
    { Ok200(<< JsonDoc(<< GoodPP(3) >>) >>),
      Ok200(<< FenceJson, Ws, JsonDoc(<< GoodPP(1) >>), Ws, Fence >>) }
GeminiAnswers ==
    GoodAnswers
    \cup { Ok200(<< >>), Ok200(<< Garbage >>), Ok200(<< JsonNoArray >>),
           Http(429), Http(500), HttpEcho(503), Http(400), NetFail }

ReviewInputs ==
    { << Raw(1, "reviewer", 40), Raw(2, "reviewer", 4) >>,
      << Raw(3, "reviewer", 4) >>,
      << Raw(5, "reviewer", MIN_TEXT_LEN) >>,
      << Raw(4, "reviewer", MIN_TEXT_LEN - 1), Raw(2, "reviewer", MIN_TEXT_LEN + 1) >>,
      << Raw(1, "reviewer", MAX_TEXT_LEN + 1), Raw(1, "reviewer", MAX_TEXT_LEN) >> }

PipeIdle == PipeInit([t \in TierSet |-> NoEntry])

InitGemini ==
    /\ PipeIdle
    /\ ObsIdle
    /\ realtime = "ok"
    /\ QuotaIdle
    /\ g_pc = "ready"
    /\ g_reviews \in ReviewInputs
    /\ g_script \in [1..MAX_RETRIES -> GeminiAnswers]
    /\ g_result = NoGResult
    /\ g_prompt = <<>>

GeminiCall ==
    /\ g_pc = "ready"
    /\ g_prompt' = ReviewsForPrompt(g_reviews)
    /\ g_result' = analyseReviewsWithGemini(g_reviews, g_script)
    /\ g_pc' = "done"
    /\ UNCHANGED <<quotaVars, realtime, pipeVars, obsVars, g_reviews, g_script>>

NextGemini == GeminiCall

SpecGemini == InitGemini /\ [][NextGemini]_vars

\* ------------------------------------------------------------------------
\* AnalysisProgress.tsx: the progress observer
\* ------------------------------------------------------------------------
ObsStages == {"scraping", "complete", "error"}
ObsPercents == {5, 50, 100}
Msgs ==
    { NoMsg, Msg(TRUE, FALSE, "", TRUE, 50) }
    \cup { Msg(TRUE, TRUE, st, TRUE, pc) : st \in ObsStages, pc \in ObsPercents }
    \cup { Msg(TRUE, TRUE, st, FALSE, 0) : st \in ObsStages }

\* payload.percent ?? 0
PercentOf(msg) == IF msg.hasPercent THEN msg.percent ELSE 0

\* the setState updater of the broadcast handler
\* variant: the percent of the event is taken as it comes
OnProgress_NoMax(prev, stage, percent) ==
    [percent |-> percent,
     stage |-> stage,
     isTimedOut |-> FALSE,
     isError |-> (stage = "error"),
     isComplete |-> (stage = "complete")]

OnProgress(prev, stage, percent) ==
    [percent |-> Max(prev.percent, percent),
     stage |-> stage,
     isTimedOut |-> FALSE,
     isError |-> (stage = "error"),
     isComplete |-> (stage = "complete")]

\* the setState updater of the inactivity timer
\* variant: the terminal flags are not looked at
OnInactivity_NoGuard(prev) == [prev EXCEPT !.isTimedOut = TRUE]

OnInactivity(prev) ==
    IF prev.isComplete \/ prev.isError THEN prev
    ELSE [prev EXCEPT !.isTimedOut = TRUE]

InitObserver ==
    /\ PipeIdle
    /\ GemIdle
    /\ ObsIdle
    /\ realtime = "ok"
    /\ QuotaIdle

\* useEffect body: resetTimeout(), subscribe to the channel
ObsMount ==
    /\ ~o_subscribed
    /\ o_subscribed' = TRUE
    /\ o_timeout' = TRUE
    /\ UNCHANGED <<quotaVars, realtime, pipeVars, gemVars, o_state, o_navTimers, o_navigated,
                   o_lastMsg, o_prevPercent>>

\* variant: the payload guard is missing
ObsOnBroadcast_NoGuard ==
    /\ o_subscribed
    /\ \E msg \in Msgs :
          /\ o_lastMsg' = msg
          /\ o_prevPercent' = o_state.percent
          /\ msg.stage = "complete" => o_navTimers + o_navigated < MaxNavTimers
          /\ o_timeout' = TRUE
          /\ o_state' = OnProgress(o_state, msg.stage, PercentOf(msg))
          /\ o_navTimers' = IF msg.stage = "complete"
                            THEN o_navTimers + 1 ELSE o_navTimers
    /\ UNCHANGED <<quotaVars, realtime, pipeVars, gemVars, o_subscribed, o_navigated>>

\* the broadcast callback
ObsOnBroadcast ==
    /\ o_subscribed
    /\ \E msg \in Msgs :
          /\ o_lastMsg' = msg
          /\ o_prevPercent' = o_state.percent
          /\ IF ~msg.hasPayload \/ ~msg.hasStage
             THEN UNCHANGED <<o_state, o_timeout, o_navTimers>>
             ELSE /\ msg.stage = "complete"
                        => o_navTimers + o_navigated < MaxNavTimers
                  /\ o_timeout' = TRUE
                  /\ o_state' = OnProgress(o_state, msg.stage, PercentOf(msg))
                  /\ o_navTimers' = IF msg.stage = "complete"
                                    THEN o_navTimers + 1 ELSE o_navTimers
    /\ UNCHANGED <<quotaVars, realtime, pipeVars, gemVars, o_subscribed, o_navigated>>

\* the inactivity timer of resetTimeout fires after TIMEOUT_MS
ObsInactivityFires ==
    /\ o_timeout
    /\ o_timeout' = FALSE
    /\ o_state' = OnInactivity(o_state)
    /\ UNCHANGED <<quotaVars, realtime, pipeVars, gemVars, o_subscribed, o_navTimers, o_navigated,
                   o_lastMsg, o_prevPercent>>

\* the 800 ms navigation timer fires: navigate(/report/:id)
ObsNavigate ==
    /\ o_navTimers > 0
    /\ o_navTimers' = o_navTimers - 1
    /\ o_navigated' = o_navigated + 1
    /\ UNCHANGED <<quotaVars, realtime, pipeVars, gemVars, o_state, o_subscribed, o_timeout,
                   o_lastMsg, o_prevPercent>>

\* the effect cleanup: removeChannel, clearTimeout(timeoutRef.current)
ObsCleanup ==
    /\ o_subscribed
    /\ o_subscribed' = FALSE
    /\ o_timeout' = FALSE
    /\ UNCHANGED <<quotaVars, realtime, pipeVars, gemVars, o_state, o_navTimers, o_navigated,
                   o_lastMsg, o_prevPercent>>

NextObserver ==
    \/ ObsMount \/ ObsOnBroadcast \/ ObsInactivityFires \/ ObsNavigate
    \/ ObsCleanup

SpecObserver == InitObserver /\ [][NextObserver]_vars

\* ------------------------------------------------------------------------
\* The pipeline with a broadcast endpoint that may fail
\* ------------------------------------------------------------------------
\* the endpoint starts to answer differently
RealtimeChanges ==
    /\ \E a \in RealtimeAnswers \ {realtime} : realtime' = a
    /\ UNCHANGED <<quotaVars, gemVars, obsVars, pipeVars>>

\* the three tiers of the cache are in the same condition
InitPub ==
    /\ \E c \in [TierSet -> UNION {CacheEntries(t) : t \in TierSet}] :
          /\ \A t \in TierSet : c[t] \in CacheEntries(t)
          /\ \A t \in TierSet : c[t].present = c[1].present
          /\ \A t \in TierSet : c[t].cached_at = c[1].cached_at
          /\ PipeInit(c)
    /\ GemIdle
    /\ o_state = InitialState
    /\ o_subscribed = FALSE
    /\ o_timeout = FALSE
    /\ o_navTimers = 0
    /\ o_navigated = 0
    /\ o_lastMsg = NoMsg
    /\ o_prevPercent = 0
    /\ realtime \in RealtimeAnswers
    /\ QuotaIdle

NextPub == Next \/ RealtimeChanges

SpecPub == InitPub /\ [][NextPub]_vars

\* ------------------------------------------------------------------------
\* run-analysis: concurrent CreateJob requests of one owner
\* ------------------------------------------------------------------------
InitQuota ==
    /\ JobInit([t \in TierSet |-> NoEntry])
    /\ GemIdle
    /\ o_state = InitialState
    /\ o_subscribed = FALSE
    /\ o_timeout = FALSE
    /\ o_navTimers = 0
    /\ o_navigated = 0
    /\ o_lastMsg = NoMsg
    /\ o_prevPercent = 0
    /\ realtime = "ok"
    /\ \E o \in Owners :
          /\ u_plan = o.plan
          /\ q_rows = o.rows
          /\ analysis_count = o.count
    /\ q_req \in [Requests -> {IdleReq(i) : i \in ConcurrentInputs}]

\* one request, with any input
InitCreate ==
    /\ JobInit([t \in TierSet |-> NoEntry])
    /\ GemIdle
    /\ o_state = InitialState
    /\ o_subscribed = FALSE
    /\ o_timeout = FALSE
    /\ o_navTimers = 0
    /\ o_navigated = 0
    /\ o_lastMsg = NoMsg
    /\ o_prevPercent = 0
    /\ realtime = "ok"
    /\ \E o \in Owners :
          /\ u_plan = o.plan
          /\ q_rows = o.rows
          /\ analysis_count = o.count
    /\ \E i \in RequestInputs :
          q_req = [r \in Requests |-> IF r = 1 THEN IdleReq(i) ELSE OffReq]

CreateJobRequest(r) ==
    \/ HReceive(r) \/ HSelectUser(r) \/ HCountCheck(r) \/ HUpsertUser(r)
    \/ HFreshSelect(r) \/ HInsert(r)

NextQuota ==
    \E r \in Requests : CreateJobRequest(r) \/ QPipelineEnds(r) \/ QIncrement(r)

SpecQuota == InitQuota /\ [][NextQuota]_vars

SpecCreate == InitCreate /\ [][NextQuota]_vars

\* ------------------------------------------------------------------------
\* Requests a client sends past run-analysis: to the table API with its own
\* session, or to the two inner edge functions with an analysis_id it chose
\* ------------------------------------------------------------------------
Callers == {"owner", "other"}
\* the Authorization values a client has: none, the anon key, its own JWT
ClientTokens == {"none", "anon_key", "user_jwt"}
SERVICE_ROLE_KEY == "service_role_key"

\* token === serviceRoleKey
isServiceRoleRequest(token) == token = SERVICE_ROLE_KEY

\* POLICY analyses_update_own: FOR UPDATE TO authenticated
\* USING (user_id = auth.uid()) WITH CHECK (user_id = auth.uid())
analyses_update_own(caller) == caller = "owner"

\* from('analyses').update({ status }).eq('id', id) sent with the caller's
\* session: the row is updated when the policy lets the caller see it, no
\* row is touched otherwise
ClientUpdateRow ==
    /\ c_calls < MaxClientCalls
    /\ status # "norow"
    /\ c_calls' = c_calls + 1
    /\ \E caller \in Callers, s \in {"pending", "complete"} :
          IF analyses_update_own(caller)
          THEN UpdateStatus(s)
          ELSE UNCHANGED <<status, statusLog>>
    /\ UNCHANGED <<u_plan, q_rows, q_req, collVars, realtime, gemVars, obsVars, app_name, diagLen,
                   review_counts, pain_points, cache, analysis_count, now, events,
                   lost, rpVars, srVars, arVars, fetched, ageAtCheck, notFound,
                   failedTiers, insertBatches>>

\* POST /functions/v1/scrape-reviews { app_id, analysis_id } by a client,
\* for a job whose pipeline has ended: the handler has no check of the caller
\* and starts (one invocation of scrape-reviews at a time)
ClientCallScrape ==
    /\ c_calls < MaxClientCalls
    /\ status # "norow"
    /\ rp_pc = "done"
    /\ sr_pc = "done"
    /\ ar_pc \in {"idle", "done"}
    /\ c_calls' = c_calls + 1
    /\ sr_pc' = "start"
    /\ sr_res' = NoResp
    /\ sr_tier' = 1
    /\ cachedTiers' = [t \in TierSet |-> NotCached]
    /\ tierReviews' = <<>>
    /\ allReviews' = <<>>
    /\ fetched' = {}
    /\ ageAtCheck' = [t \in TierSet |-> 0 - 1]
    /\ UNCHANGED <<u_plan, q_rows, q_req, collVars, realtime, gemVars, obsVars, storeVars, rpVars,
                   arVars, statusLog, notFound, failedTiers, insertBatches>>

\* POST /functions/v1/analyse-reviews { analysis_id, reviews } by a client:
\* if (!isServiceRoleRequest(req)) return 401
ClientCallAnalyse ==
    /\ c_calls < MaxClientCalls
    /\ status # "norow"
    /\ rp_pc = "done"
    /\ ar_pc \in {"idle", "done"}
    /\ c_calls' = c_calls + 1
    /\ \E token \in ClientTokens :
          IF isServiceRoleRequest(token)
          THEN ar_pc' = "start" /\ ar_res' = NoResp
          ELSE UNCHANGED <<ar_pc, ar_res>>
    /\ UNCHANGED <<u_plan, q_rows, q_req, collVars, realtime, gemVars, obsVars, storeVars, rpVars,
                   srVars, ar_reviews, ar_result, insertError, histVars>>

NextClient == Next \/ ClientUpdateRow \/ ClientCallScrape \/ ClientCallAnalyse

SpecClient == InitNet /\ [][NextClient]_vars

\* ------------------------------------------------------------------------
\* review_cache as a table of rows with the constraint
\* uq_review_cache_app_tier UNIQUE (app_id, star_tier), written by concurrent
\* invocations of scrape-reviews
\* ------------------------------------------------------------------------
CacheRow(app_id, star_tier, reviews, fresh) ==
    [app_id |-> app_id, star_tier |-> star_tier, reviews |-> reviews, fresh |-> fresh]
SameKey(r1, r2) == r1.app_id = r2.app_id /\ r1.star_tier = r2.star_tier
uq_review_cache_app_tier(table) ==
    \A r1, r2 \in table : SameKey(r1, r2) => r1 = r2

\* INSERT: rejected (23505) when the constraint would be broken
Insert(table, row) ==
    IF uq_review_cache_app_tier(table \cup {row}) THEN table \cup {row} ELSE table

\* variant: insert() in the place of upsert()
Upsert_InsertOnly(table, row) == Insert(table, row)

\* upsert(row, { onConflict: 'app_id,star_tier' }):
\* INSERT ... ON CONFLICT (app_id, star_tier) DO UPDATE
Upsert(table, row) ==
    IF \E r \in table : SameKey(r, row)
    THEN {r \in table : ~SameKey(r, row)} \cup {row}
    ELSE Insert(table, row)

\* what gplay.reviews() gives invocation j for a tier after the filter:
\* nothing, or reviews seen at the time of that invocation
Sample(j, t, n) == [by |-> j, tier |-> t, n |-> n]
FetchResults(j, t) == { <<>>, << Sample(j, t, 1), Sample(j, t, 2) >> }

\* the handler is invoked
CjStart(j) ==
    /\ cj[j].pc = "off"
    /\ cj' = [cj EXCEPT ![j].pc = "check"]
    /\ UNCHANGED <<rc_table, u_plan, q_rows, q_req, c_calls, pipeVars, gemVars, obsVars, realtime>>

\* select of the rows of the subject not older than 24 hours; isFullyCached
CjCacheCheck(j) ==
    /\ cj[j].pc = "check"
    /\ LET found == {r.star_tier : r \in {x \in rc_table : x.app_id = cj[j].app_id /\ x.fresh}}
       IN  cj' = [cj EXCEPT ![j].cachedTiers = found,
                            ![j].pc = IF found = TierSet THEN "done" ELSE "loop"]
    /\ UNCHANGED <<rc_table, u_plan, q_rows, q_req, c_calls, pipeVars, gemVars, obsVars, realtime>>

CjAdvance(job, pc) ==
    IF pc = "upsert" THEN [job EXCEPT !.pc = "upsert"]
    ELSE IF job.tier = 3 THEN [job EXCEPT !.pc = "done", !.tierReviews = <<>>]
    ELSE [job EXCEPT !.pc = "loop", !.tier = job.tier + 1, !.tierReviews = <<>>]

\* for (const tier of [1, 2, 3]): a cached tier is skipped, another one is
\* fetched; if (tierReviews.length > 0) the upsert follows
CjTier(j) ==
    /\ cj[j].pc = "loop"
    /\ IF cj[j].tier \in cj[j].cachedTiers
       THEN cj' = [cj EXCEPT ![j] = CjAdvance(cj[j], "next")]
       ELSE \E res \in FetchResults(j, cj[j].tier) :
               cj' = [cj EXCEPT ![j] = CjAdvance([cj[j] EXCEPT !.tierReviews = res],
                                                 IF Len(res) > 0 THEN "upsert" ELSE "next")]
    /\ UNCHANGED <<rc_table, u_plan, q_rows, q_req, c_calls, pipeVars, gemVars, obsVars, realtime>>

\* the upsert of the tier's row
CjUpsert(j) ==
    /\ cj[j].pc = "upsert"
    /\ rc_table' = Upsert(rc_table, CacheRow(cj[j].app_id, cj[j].tier, cj[j].tierReviews, TRUE))
    /\ cj' = [cj EXCEPT ![j] = CjAdvance(cj[j], "next")]
    /\ UNCHANGED <<u_plan, q_rows, q_req, c_calls, pipeVars, gemVars, obsVars, realtime>>

\* an earlier run on the other subject has left its three rows
RcOtherSubject ==
    /\ \A r \in rc_table : r.app_id # OtherSubject
    /\ \A j \in CollJobs : cj[j].pc = "off"
    /\ rc_table' = rc_table \cup
          {CacheRow(OtherSubject, t, << Sample(0, t, 1) >>, TRUE) : t \in TierSet}
    /\ UNCHANGED <<cj, u_plan, q_rows, q_req, c_calls, pipeVars, gemVars, obsVars, realtime>>

\* 24 hours have passed since the rows of the invocations' subject were
\* written (the other subject's rows are kept fresh by its own runs)
RcExpire ==
    /\ \E r \in rc_table : r.app_id = Subject /\ r.fresh
    /\ rc_table' = {IF r.app_id = Subject THEN [r EXCEPT !.fresh = FALSE] ELSE r : r \in rc_table}
    /\ UNCHANGED <<cj, u_plan, q_rows, q_req, c_calls, pipeVars, gemVars, obsVars, realtime>>

\* cron job purge-review-cache
RcPurge ==
    /\ \E r \in rc_table : ~r.fresh
    /\ rc_table' = {r \in rc_table : r.fresh}
    /\ UNCHANGED <<cj, u_plan, q_rows, q_req, c_calls, pipeVars, gemVars, obsVars, realtime>>

InitCache ==
    /\ PipeInit([t \in TierSet |-> NoEntry])
    /\ GemIdle
    /\ ObsIdle
    /\ realtime = "ok"
    /\ QuotaIdle

NextCache ==
    \/ \E j \in CollJobs : CjStart(j) \/ CjCacheCheck(j) \/ CjTier(j) \/ CjUpsert(j)
    \/ RcOtherSubject \/ RcExpire \/ RcPurge

SpecCache == InitCache /\ [][NextCache]_vars

\* ------------------------------------------------------------------------
\* Scheduling: every function that has been started runs to its end
\* (EdgeRuntime.waitUntil keeps the pipeline alive; a handler runs to its
\* return).  The clock, the cron job and the transport faults are not fair.
\* ------------------------------------------------------------------------
FairSpecNet ==
    /\ SpecNet
    /\ WF_vars(CreateJob)
    /\ WF_vars(RunPipeline \/ RpCatchUpd)
    /\ WF_vars(ScrapeReviews)
    /\ WF_vars(AnalyseReviews)

\* ------------------------------------------------------------------------
\* Properties
\* ------------------------------------------------------------------------
NonTerminal == {"pending", "scraping", "analysing"}
TerminalEvents == {i \in DOMAIN events : events[i].stage \in Terminal}
StagesPublished == {events[i].stage : i \in DOMAIN events}

\* C1: at most one terminal progress event (complete or error) is ever
\* published on the topic of a job, whatever the calls between the functions do
C1_AtMostOneTerminalEvent == Cardinality(TerminalEvents) <= 1

\* C2: a created job eventually has a terminal status and a terminal
\* event, and is never left for ever in pending, scraping or analysing
C2_JobReachesTerminal ==
    /\ (status = "pending") ~> (status \in Terminal)
    /\ (status = "pending") ~> (TerminalEvents # {})
    /\ ~<>[](status \in NonTerminal)

\* C3: a terminal status is absorbing: once complete or error is stored, no
\* later write stores another value
C3_TerminalAbsorbing == [][(status \in Terminal) => (status' = status)]_vars

\* --- the progress observer ---

Handled(msg) == msg.hasPayload /\ msg.hasStage

\* C4: the percent shown by the observer never decreases, and after each
\* progress event it is the maximum of the previous percent and the percent of
\* the event (0 when the event carries none)
C4_PercentNeverRegresses ==
    /\ [](Handled(o_lastMsg)
            => o_state.percent = Max(o_prevPercent, PercentOf(o_lastMsg)))
    /\ [][o_state'.percent >= o_state.percent]_vars

\* an event with a lower percent arrives after a higher one
C4_Witness ==
    /\ Handled(o_lastMsg)
    /\ o_lastMsg.hasPercent
    /\ o_lastMsg.percent = 5
    /\ o_prevPercent = 50
    /\ o_state.percent = 50

\* --- subject not found, no samples ---

StatusesWritten == {statusLog[i] : i \in DOMAIN statusLog}
NotFoundDiag == FailedDiag("scrape-reviews", Resp(404, "app_not_found", <<>>))
NoSamplesDiag == FailedDiag("scrape-reviews", Resp(500, "scraping_failed", <<>>))

ZeroSamples ==
    /\ ~notFound
    /\ sr_pc \in {"empty_upd", "done"}
    /\ allReviews = <<>>

RetryableAnswers ==
    { Http(429), Http(500), NetFail, Ok200(<< >>), Ok200(<< Garbage >>),
      Ok200(<< JsonNoArray >>) }

\* the error each retryable answer produces
FailureOf(r) ==
    CASE r = Http(429) -> GErr("RateLimited", 0, FALSE)
      [] r = Http(500) -> GErr("Gemini API", 500, FALSE)
      [] r = NetFail -> GErr("fetch failed", 0, FALSE)
      [] r = Ok200(<< >>) -> GErr("Gemini returned empty content", 0, FALSE)
      [] r = Ok200(<< Garbage >>) -> GErr("SyntaxError", 0, FALSE)
      [] OTHER -> GErr("Gemini response missing pain_points array", 0, FALSE)

\* the findings a good answer carries
FindingsOf(r) ==
    IF r = Ok200(<< JsonDoc(<< GoodPP(3) >>) >>) THEN << GoodPP(3) >>
    ELSE << GoodPP(1) >>

HasUsableReview == \E i \in DOMAIN g_reviews : g_reviews[i].text > 10

C8_NoRetryOn400 ==
    (g_pc = "done" /\ HasUsableReview) =>
        \A k \in 1..4 :
           ( /\ \A j \in 1..(k - 1) : g_script[j] \in RetryableAnswers
             /\ g_script[k] = Http(400) )
           => /\ ~g_result.ok
              /\ g_result.attempts = k
              /\ g_result.error = GErr("Gemini API", 400, FALSE)
              /\ Len(g_result.sleeps) = k - 1

C8_Witness ==
    /\ g_pc = "done"
    /\ HasUsableReview
    /\ g_script[1] = Http(400)
    /\ g_result.attempts = 1
    /\ g_result.sleeps = <<>>
    /\ ~g_result.ok

\* --- the cache ---

Contains(seq, sub) == \A i \in DOMAIN sub : \E j \in DOMAIN seq : seq[j] = sub[i]

\* the tier loop of scrape-reviews has dealt with tier t
PastTier(t) ==
    \/ sr_pc \in {"done_bc", "empty_upd", "counts_upd"}
    \/ sr_pc = "done" /\ sr_res.status \in {200, 500}
    \/ sr_pc \in {"tier_bc", "tier_fetch", "tier_cache", "tier_nf_upd"} /\ sr_tier > t
    \/ sr_pc \in {"tier_cache", "tier_nf_upd"} /\ sr_tier = t

\* C9: a tier whose cache row is less than 24 hours old at the cache check is
\* never fetched from the store and its cached samples are in the samples
\* returned; a tier whose row is more than 24 hours old, or has no row, is
\* fetched, whether or not the purge job has removed the row
C9_CacheTTL ==
    \A t \in TierSet :
       /\ (ageAtCheck[t] >= 0 /\ ageAtCheck[t] < 24)
             => /\ t \notin fetched
                /\ (sr_pc = "done" /\ sr_res.ok)
                      => Contains(sr_res.reviews, CachedReviews(t))
       /\ ((ageAtCheck[t] < 0 \/ ageAtCheck[t] > 24) /\ PastTier(t))
             => t \in fetched

\* tier 1 is 23 hours old and served from the cache, tier 2 is 25 hours old
\* (not purged) and fetched
C9_Witness ==
    /\ ageAtCheck[1] = 23
    /\ ageAtCheck[2] = 25
    /\ sr_pc = "done"
    /\ sr_res.ok
    /\ fetched = {2, 3}
    /\ Contains(sr_res.reviews, CachedReviews(1))

\* --- persisted findings ---

\* C10: every persisted pain_points row has at most 2 representative quotes,
\* the first ones of those returned
C10_AtMostTwoQuotes ==
    \A i \in DOMAIN pain_points :
       /\ Len(pain_points[i].representative_quotes) <= 2
       /\ \A k \in DOMAIN pain_points[i].representative_quotes :
             pain_points[i].representative_quotes[k] = k

\* a finding returned with 3 quotes has been persisted
C10_Witness ==
    /\ pain_points # <<>>
    /\ \E i \in DOMAIN ar_result :
          /\ IsValidPainPoint(ar_result[i])
          /\ Len(ar_result[i].representative_quotes) = 3

\* --- the quota counter ---

CountStatus(rows, st) == Cardinality({i \in DOMAIN rows : rows[i] = st})

\* every row of the owner has ended, fewer than 5 of them in 'complete'
OnlyFailuresBelowLimit ==
    /\ \A i \in DOMAIN q_rows : q_rows[i] \in Terminal
    /\ CountStatus(q_rows, "complete") < 5

\* C12: a free-plan owner whose rows all ended, fewer than 5 of them in
\* 'complete' (the others in 'error'), is not answered with the quota error
C12_FailedJobsKeepHeadroom ==
    [][\A r \in Requests :
          (OnlyFailuresBelowLimit /\ q_req[r].pc = "count")
             => q_req'[r].resp.error # "free_tier_limit_reached"]_vars

QuotaError == HResp(403, "free_tier_limit_reached")

ValidFinding(pp) ==
    /\ pp.category \in {"Bug", "UX Issue", "Performance", "Feature Gap", "Privacy", "Support"}
    /\ pp.severity \in {"High", "Medium", "Low"}
    /\ pp.frequencyIsNumber /\ pp.frequency >= 0
    /\ pp.descriptionIsString
    /\ pp.quotesIsArray
    /\ pp.improvement.present /\ pp.improvement.recommendationIsString
    /\ pp.improvement.phase \in {"Quick Win", "Short-Term", "Long-Term"}
    /\ pp.improvement.effort \in {"Low", "Medium", "High"}
    /\ pp.improvement.impact \in {"Low", "Medium", "High"}

ValidFindings == SelectSeq(ar_result, ValidFinding)

\* the row and the finding agree on what the finding says
SameFinding(row, pp) ==
    /\ row.category = pp.category
    /\ row.severity = pp.severity
    /\ row.frequency = pp.frequency
    /\ row.improvement = pp.improvement

\* C13: when analyse-reviews has returned, the extraction gave at least one
\* valid finding and the store was available, the job is 'complete' and its
\* rows are exactly the valid findings, in one batch
C13_ValidFindingsPersisted ==
    (ar_pc = "done" /\ ValidFindings # <<>> /\ insertError # "unavailable")
       => /\ status = "complete"
          /\ insertBatches = 1
          /\ Len(pain_points) = Len(ValidFindings)
          /\ \A i \in DOMAIN pain_points : SameFinding(pain_points[i], ValidFindings[i])

\* --- validation of the request ---

\* positions at which a dot-separated segment of id starts
SegmentStarts(id) == {1} \cup {k + 1 : k \in {j \in DOMAIN id : id[j] = "P"}}

\* at least 2 dot-separated segments, each starting with a letter
PackageShape(id) ==
    /\ \E j \in DOMAIN id : id[j] = "P"
    /\ \A k \in SegmentStarts(id) : k <= Len(id) /\ id[k] = "L"

NoCredentials(req) == req.auth # "ok"
NoBody(req) == req.body.kind = "unparseable" \/ ~req.body.hasAppId

\* the step of a bad request: it is answered 400 or 401 and leaves the users
\* row, the rows, the counter and the events alone
RejectStep(r, isBad) ==
    (isBad /\ q_req'[r] # q_req[r])
       => /\ q_req[r].pc = "idle"
          /\ q_req'[r].pc = "done"
          /\ q_req'[r].resp.status \in {400, 401}
          /\ UNCHANGED <<u_plan, q_rows, analysis_count, events, status>>

\* a bad request that was handled has no row and no pipeline
RejectedStays(r, isBad) ==
    (isBad /\ q_req[r].pc \notin {"idle", "off"})
       => q_req[r].pc = "done" /\ q_req[r].row = 0

BadAsSent(req) ==
    NoCredentials(req) \/ NoBody(req) \/ ~PackageShape(req.body.app_id)
BadAfterTrim(req) ==
    NoCredentials(req) \/ NoBody(req) \/ ~PackageShape(Trim(req.body.app_id))

\* C15 as stated: a request without credentials, without a readable body or
\* app_id, or whose identifier as sent is not of the package-name shape, is
\* rejected before any state mutation
C15_AsStated ==
    /\ [][\A r \in Requests : RejectStep(r, BadAsSent(q_req[r].input))]_vars
    /\ [](\A r \in Requests : RejectedStays(r, BadAsSent(q_req[r].input)))

\* C15: the same, for the identifier with its surrounding whitespace removed
C15_MalformedRejected ==
    /\ [][\A r \in Requests : RejectStep(r, BadAfterTrim(q_req[r].input))]_vars
    /\ [](\A r \in Requests : RejectedStays(r, BadAfterTrim(q_req[r].input)))

\* an identifier whose second segment starts with a digit is refused and the
\* owner still has no users row
C15_Witness ==
    /\ q_req[1].input = Request("ok", Body("json", TRUE, <<"L", "P", "D", "L">>))
    /\ q_req[1].resp = HResp(400, "invalid_app_id")
    /\ q_req[1].pc = "done"
    /\ u_plan = "none"
    /\ q_rows = <<>>

\* C16: when the pain_points insert has failed the job is never 'complete', no
\* 'complete' event is published, the counter is not incremented and the
\* pipeline ends with the job in 'error'; a job that is 'complete' has its
\* batch of findings committed
C16_PersistenceFailureIsError ==
    /\ (insertError # "none")
          => /\ "complete" \notin StatusesWritten
             /\ "complete" \notin StagesPublished
             /\ analysis_count = 0
             /\ (rp_pc = "done" /\ ar_pc = "done") => status = "error"
    /\ (status = "complete")
          => (insertBatches = 1 /\ pain_points # <<>>)

\* the store refused the batch of a successful extraction and the job has
\* ended in error
C16_Witness ==
    /\ insertError = "unavailable"
    /\ ValidFindings # <<>>
    /\ pain_points = <<>>
    /\ rp_pc = "done"
    /\ status = "error"

\* no request of the owner is being handled and no pipeline is running
AllRequestsDone == \A r \in Requests : q_req[r].pc = "done"

\* C17: once every request and pipeline of the owner has finished,
\* users.analysis_count is the number of the owner's rows in 'complete', and
\* the counter never decreases
C17_CounterCountsCompletions ==
    /\ [](AllRequestsDone => analysis_count = CountStatus(q_rows, "complete"))
    /\ [][analysis_count' >= analysis_count]_vars

\* C18: in the observer, isError once true stays true and isComplete once
\* true stays true, whatever events follow
C18_TerminalFlagsSticky ==
    [][/\ o_state.isError => o_state'.isError
       /\ o_state.isComplete => o_state'.isComplete]_vars

\* --- publishing ---

\* why a job is in error once its pipeline has ended
ErrorCause ==
    \/ notFound
    \/ sr_res.error = "scraping_failed"
    \/ ar_res.error \in {"gemini_unavailable", "db_insert_failed"}

\* C19: broadcastProgress never raises to its caller (no handler is thrown
\* out of its code after a publish, runPipeline never enters its catch
\* block), and whatever publishes failed the pipeline ends as it does when
\* all succeed: 'complete' with the batch committed and the counter
\* incremented, or 'error' for a cause that is not a publish, nothing
\* committed and the counter untouched
C19_PublishIsBestEffort ==
    /\ rp_pc \notin {"crashed", "catch_upd"}
    /\ sr_pc # "crashed"
    /\ ar_pc # "crashed"
    /\ rp_pc = "done"
          => \/ /\ status = "complete"
                /\ insertBatches = 1
                /\ pain_points # <<>>
                /\ analysis_count = 1
             \/ /\ status = "error"
                /\ ErrorCause
                /\ pain_points = <<>>
                /\ analysis_count = 0

\* publishes were not delivered and the job is complete all the same
C19_Witness ==
    /\ lost
    /\ realtime = "unreachable"
    /\ rp_pc = "done"
    /\ status = "complete"
    /\ analysis_count = 1
    /\ events[Len(events)].stage = "complete"

\* --- findings ---

\* C20: a job in 'pending' or 'scraping' has no pain_points row; the rows of
\* a job are inserted at most once, all in one batch, and no row is changed
\* or removed afterwards
C20_FindingsInsertedOnce ==
    /\ [](status \in {"pending", "scraping"} => pain_points = <<>>)
    /\ [](insertBatches <= 1)
    /\ [](pain_points # <<>> => insertBatches = 1)
    /\ [][pain_points # <<>> => pain_points' = pain_points]_vars
    /\ [][pain_points' # pain_points => insertBatches' = insertBatches + 1]_vars

\* the batch has just been inserted, the job is still in 'analysing'
C20_Witness ==
    /\ ar_pc = "complete_upd"
    /\ status = "analysing"
    /\ insertBatches = 1
    /\ Len(pain_points) >= 2
    /\ "scraping" \in StatusesWritten

\* --- backoff ---

Sum3(s) == (IF Len(s) >= 1 THEN s[1] ELSE 0) + (IF Len(s) >= 2 THEN s[2] ELSE 0)
           + (IF Len(s) >= 3 THEN s[3] ELSE 0)

TransientAnswers == RetryableAnswers \cup {HttpEcho(503)}

\* C22: as long as the answers so far were transient (429, 5xx, network
\* failure, empty content, unparseable text, no pain_points list) the next
\* attempt is made, up to 4 attempts; a 400 answer ends the call at that
\* attempt
C22_RetriesTransientOnly ==
    (g_pc = "done" /\ HasUsableReview) =>
        \A k \in 1..4 :
           (\A j \in 1..(k - 1) : g_script[j] \in TransientAnswers)
           => /\ g_result.attempts >= k
              /\ g_script[k] = Http(400) => (g_result.attempts = k /\ ~g_result.ok)
              /\ (k = 4 /\ g_script[k] \in TransientAnswers)
                    => (g_result.attempts = 4 /\ ~g_result.ok)

\* --- preprocessing ---

\* C23: the samples sent are those of at least 10 characters, in their
\* order, each cut to at most 500 characters; when none remains the call
\* fails with the no-valid-input error without any attempt
C23_PreprocessingThreshold ==
    g_pc = "done" =>
        LET AtLeastTen(r) == r.text >= 10
            kept == SelectSeq(g_reviews, AtLeastTen)
        IN  /\ Len(g_prompt) = Len(kept)
            /\ \A i \in DOMAIN g_prompt :
                  /\ g_prompt[i].score = kept[i].score
                  /\ g_prompt[i].text = (IF kept[i].text > 500 THEN 500 ELSE kept[i].text)
            /\ g_prompt = <<>> =>
                  /\ g_result.error.msg = "No valid review text to analyse"
                  /\ g_result.attempts = 0

\* --- no valid finding ---

\* the extraction call returned and none of its findings is valid
NoValidFinding == "ai_analysis_complete" \in StagesPublished /\ ValidFindings = <<>>

StatusRank(s) ==
    CASE s = "pending" -> 1 [] s = "scraping" -> 2 [] s = "analysing" -> 3
      [] s = "complete" -> 4 [] OTHER -> 5

\* the values written to analyses.status, repeated writes of one value
\* counted once, are a prefix of pending, scraping, analysing, complete,
\* optionally followed by error
StatusInOrder ==
    /\ \A i, j \in DOMAIN statusLog :
          i < j => StatusRank(statusLog[i]) <= StatusRank(statusLog[j])
    /\ \A i \in DOMAIN statusLog :
          statusLog[i] # "error" =>
             \A r \in 1..(StatusRank(statusLog[i]) - 1) :
                \E j \in 1..(i - 1) : StatusRank(statusLog[j]) = r

\* the extraction call is made only when scrape-reviews has returned with
\* every tier taken from the cache or fetched
ExtractionAfterCollection ==
    ar_pc # "idle" =>
        /\ sr_pc = "done"
        /\ sr_res.ok
        /\ \A t \in TierSet : cachedTiers[t].has \/ t \in fetched

\* rows exist only when the extraction call has returned a result
InsertAfterExtraction == pain_points # <<>> => "ai_analysis_complete" \in StagesPublished

\* C25: the stages of one job run in sequence: the status values are
\* written in the order pending, scraping, analysing, complete, optionally
\* ended by error; extraction starts after the collection of the three
\* tiers; findings are inserted after the extraction has returned
C25_StagesSequential ==
    /\ StatusInOrder
    /\ ExtractionAfterCollection
    /\ InsertAfterExtraction

\* --- soft failure of a tier ---

\* the cache row of tier t was written by this job
WrittenNow(t) == cache[t].present /\ cache[t].cached_at >= StartHour

\* C26: the tiers are taken in the order 1, 2, 3; a fetch that fails with
\* an error other than not found adds no sample and writes no cache row for
\* its tier, and the loop goes on with the next tier; whenever the
\* collection ends with samples they all go to the extraction
C26_TierSoftFail ==
    /\ [][/\ sr_tier' >= sr_tier /\ sr_tier' <= sr_tier + 1
          /\ \A t \in fetched' \ fetched : \A u \in fetched : u < t]_vars
    /\ [][~(failedTiers' \subseteq failedTiers) =>
             /\ allReviews' = allReviews
             /\ cache' = cache
             /\ status' = status
             /\ IF sr_tier < 3
                THEN sr_pc' = "tier_bc" /\ sr_tier' = sr_tier + 1
                ELSE sr_pc' = "done_bc"]_vars
    /\ [](\A t \in failedTiers : ~WrittenNow(t))
    /\ []((sr_res.ok /\ allReviews # <<>> /\ rp_pc = "done")
            => (ar_pc = "done" /\ ar_reviews = allReviews
                /\ "analysing" \in StatusesWritten))

\* the fetch of tier 2 failed, tier 1 was fetched and cached before it and
\* tier 3 is fetched and cached after it
C26_Witness ==
    /\ failedTiers = {2}
    /\ fetched = {1, 2, 3}
    /\ WrittenNow(1) /\ WrittenNow(3) /\ ~cache[2].present
    /\ sr_pc = "done_bc"
    /\ Len(allReviews) >= 2

\* --- sample counts ---

\* C27: once a job has entered the extraction stage its review_counts have
\* been written, and they account for every sample collected
C27_CountsPersisted ==
    "analysing" \in StatusesWritten =>
        /\ review_counts.set
        /\ review_counts.counts[1] + review_counts.counts[2] + review_counts.counts[3]
              = Len(allReviews)

\* --- diagnostics ---

\* an exception reaching the catch block of runPipeline sets the status to
\* error with the diagnostic `catch: ...` of at most 200 characters, and the
\* error event is published before the pipeline ends
CatchPathHandled ==
    /\ [][(rp_pc = "catch_upd" /\ rp_pc' # rp_pc)
            => /\ status' = "error"
               /\ app_name' = CatchDiag
               /\ diagLen' <= 200
               /\ rp_pc' = "error_bc"]_vars
    /\ [][(rp_pc = "error_bc" /\ rp_pc' # rp_pc)
            => /\ events' = Append(events, [stage |-> "error", percent |-> 100])
               /\ rp_pc' = "done"]_vars

\* C28: an exception in runPipeline is caught, the status becomes error
\* with the exception text cut to 200 characters and the error event is
\* published; the diagnostic written on any error path is bounded (by the
\* same 200 characters)
C28_DiagnosticBounded ==
    /\ CatchPathHandled
    /\ [](diagLen <= 200)

\* --- the inactivity timer ---

ObsTerminal(st) == st.isError \/ st.isComplete

\* C29: the inactivity timer is pending from the subscription on and again
\* after every progress event; when it fires in a state that is not terminal
\* isTimedOut becomes true, when it fires in a terminal state the state is
\* unchanged; isTimedOut is never true together with isError or isComplete
C29_InactivityTimeout ==
    /\ [][(~o_subscribed /\ o_subscribed') => o_timeout']_vars
    /\ [][o_state' # o_state
            => \/ o_timeout' /\ o_state' = OnProgress(o_state, o_state'.stage, o_state'.percent)
               \/ o_timeout /\ ~o_timeout']_vars
    /\ [][(o_timeout /\ ~o_timeout' /\ o_subscribed')
            => o_state' = IF ObsTerminal(o_state) THEN o_state
                          ELSE [o_state EXCEPT !.isTimedOut = TRUE]]_vars
    /\ [](~(o_state.isTimedOut /\ ObsTerminal(o_state)))

\* the timer has fired after an error event and left the state as it was
C29_Witness ==
    /\ o_subscribed
    /\ ~o_timeout
    /\ o_state.isError
    /\ ~o_state.isTimedOut
    /\ o_state.stage = "error"

\* --- teardown ---

\* C30: while the observer is not mounted (after its cleanup) no timer of
\* it is pending, its state does not change and it does not navigate
C30_TeardownCancelsTimers ==
    /\ [](~o_subscribed => (~o_timeout /\ o_navTimers = 0))
    /\ [][~o_subscribed => (o_state' = o_state /\ o_navigated' = o_navigated)]_vars

\* --- malformed messages ---

\* C40: a message without payload or without stage changes neither the
\* state of the observer (percent, stage, isError, isComplete, isTimedOut)
\* nor the inactivity timer, and schedules no navigation
C40_MalformedIgnored ==
    [][(o_lastMsg' # o_lastMsg /\ ~Handled(o_lastMsg'))
         => /\ o_state' = o_state
            /\ o_timeout' = o_timeout
            /\ o_navTimers' = o_navTimers]_vars

\* a payload without stage was received after the inactivity timer had
\* fired: the timer is not pending and isTimedOut is still set
C40_Witness ==
    /\ o_subscribed
    /\ o_lastMsg = Msg(TRUE, FALSE, "", TRUE, 50)
    /\ o_state.isTimedOut
    /\ ~o_timeout
    /\ o_state.percent = 5

\* --- navigation ---

\* C38: a navigation is scheduled only by a complete event that is not a
\* duplicate (the observer had not seen complete yet), so at most one per
\* subscription, and the observer does not navigate when the last event
\* it handled is an error event
C38_NavigateOnce ==
    /\ [][(o_subscribed /\ o_navTimers' > o_navTimers)
            => (o_lastMsg'.stage = "complete" /\ ~o_state.isComplete)]_vars
    /\ [][o_navigated' > o_navigated => o_state.stage # "error"]_vars

\* --- cache rows are never empty ---

\* every tier had a fresh row at the cache check
AllFreshAtCheck == \A t \in TierSet : ageAtCheck[t] >= 0 /\ ageAtCheck[t] < 24

\* C39: no review_cache row holds an empty sample list, so every cached
\* tier gives at least one sample, and a job whose three tiers were fresh
\* in the cache returns a non-empty list without calling gplay.reviews()
C39_NoEmptyCacheRow ==
    /\ \A t \in TierSet : cache[t].present => Len(cache[t].reviews) >= 1
    /\ \A t \in TierSet : cachedTiers[t].has => Len(cachedTiers[t].reviews) >= 1
    /\ AllFreshAtCheck => fetched = {}
    /\ (AllFreshAtCheck /\ sr_pc = "done")
          => (sr_res.ok /\ Len(sr_res.reviews) >= 3)

\* the job is served from the cache alone and completes
C39_Witness ==
    /\ AllFreshAtCheck
    /\ sr_pc = "done"
    /\ fetched = {}
    /\ Len(sr_res.reviews) = 3
    /\ status = "complete"

\* --- the author of a review ---

Anonymous(reviews) == \A i \in DOMAIN reviews : reviews[i].userName = "reviewer"

\* C33: every review in a review_cache row, in the list scrape-reviews
\* collects and returns, and in the list handed to analyse-reviews has the
\* author 'reviewer', whether it was taken by the tier filter or by the
\* fallback
C33_AuthorNeverStored ==
    /\ \A t \in TierSet : Anonymous(cache[t].reviews)
    /\ \A t \in TierSet : Anonymous(cachedTiers[t].reviews)
    /\ Anonymous(tierReviews)
    /\ Anonymous(allReviews)
    /\ Anonymous(sr_res.reviews)
    /\ Anonymous(rp_res.reviews)
    /\ Anonymous(ar_reviews)

\* tier 1 was filled by the fallback with a 5-star review and tier 3 by
\* the filter; both rows are cached and handed to analyse-reviews
C33_Witness ==
    /\ WrittenNow(1) /\ cache[1].reviews[1].score = 5
    /\ WrittenNow(3) /\ cache[3].reviews[1].score = 3
    /\ Len(ar_reviews) >= 2
    /\ ar_reviews[1].score = 5
    /\ ar_reviews[1].userName = "reviewer"

\* --- the complete event ---

\* C34: at the moment a complete event is published the stored status of
\* the job is complete and its batch of pain_points is committed
C34_CompleteEventMeansComplete ==
    [][(events' # events /\ events'[Len(events')].stage = "complete")
         => /\ status = "complete"
            /\ insertBatches = 1
            /\ pain_points # <<>>]_vars

\* --- concurrent requests of one owner ---

\* C35: an owner on the free plan never has more than FREE_TIER_LIMIT rows in
\* analyses, concurrent requests included
C35_FreeTierCapUnderConcurrency ==
    u_plan \in {"none", "free"} => Len(q_rows) <= FREE_TIER_LIMIT

\* --- failed jobs and their pain_points ---

\* C36: a job whose stored status is error has no rows in pain_points
C36_ErrorJobHasNoFindings ==
    status = "error" => pain_points = <<>>

\* --- the percents of the published events ---

PercentsNonDecreasing ==
    \A i, j \in DOMAIN events : i <= j => events[i].percent <= events[j].percent
TerminalCarries100 ==
    \A i \in TerminalEvents : events[i].percent = 100
TerminalIsLast ==
    \A i \in TerminalEvents : i = Len(events)

\* C37: the percents of the events of a job never decrease, a terminal
\* event carries 100, and no event follows a terminal event
C37_PercentMonotone ==
    /\ PercentsNonDecreasing
    /\ TerminalCarries100
    /\ TerminalIsLast

\* --- requests of a client past run-analysis ---

\* a step taken for a client: the request itself, or a step of the
\* invocation it started once the job's own pipeline has ended
ClientStep == c_calls' # c_calls \/ (c_calls > 0 /\ rp_pc = "done")

\* C31: no request of a client changes the status, the review counts or the
\* diagnostic of a job; only the stages of its own pipeline do
C31_OnlyPipelineMutatesJob ==
    [][ClientStep => /\ status' = status
                     /\ review_counts' = review_counts
                     /\ app_name' = app_name
                     /\ diagLen' = diagLen]_vars

\* --- one cache row per subject and tier ---

OneRowPerKey ==
    \A r1, r2 \in rc_table :
       (r1.app_id = r2.app_id /\ r1.star_tier = r2.star_tier) => r1 = r2
OtherKeys(table, app_id, star_tier) ==
    {r \in table : r.app_id # app_id \/ r.star_tier # star_tier}
OneWriterPerRow ==
    \A r \in rc_table :
       \/ r = CacheRow(OtherSubject, r.star_tier, << Sample(0, r.star_tier, 1) >>, TRUE)
       \/ \E j \in CollJobs : r.reviews \in FetchResults(j, r.star_tier) \ {<<>>}
LastWriterWins ==
    \A j \in CollJobs :
       (cj[j].pc = "upsert" /\ cj'[j].pc # "upsert")
          => /\ CacheRow(cj[j].app_id, cj[j].tier, cj[j].tierReviews, TRUE) \in rc_table'
             /\ \A r \in rc_table' :
                   (r.app_id = cj[j].app_id /\ r.star_tier = cj[j].tier)
                      => r.reviews = cj[j].tierReviews
             /\ OtherKeys(rc_table', cj[j].app_id, cj[j].tier)
                   = OtherKeys(rc_table, cj[j].app_id, cj[j].tier)

\* C32: review_cache holds at most one row per subject and tier under
\* concurrent invocations; an upsert replaces the row of its key and leaves
\* the other rows alone, and a row is always the reviews of one invocation
C32_OneEntryPerKey ==
    /\ [](OneRowPerKey /\ OneWriterPerRow)
    /\ [][LastWriterWins]_vars

\* two invocations on the same subject found no row for tier 1: the second
\* has written its row and gone on, the first is about to write over it
C32_Witness ==
    /\ cj[1].app_id = cj[2].app_id
    /\ cj[1].pc = "upsert" /\ cj[1].tier = 1 /\ 1 \notin cj[2].cachedTiers
    /\ cj[2].pc = "upsert" /\ cj[2].tier = 2
    /\ \E r \in rc_table : /\ r.app_id = cj[1].app_id /\ r.star_tier = 1 /\ r.fresh
                             /\ r.reviews[2] = Sample(2, 1, 2)
    /\ \E r \in rc_table : r.app_id = OtherSubject

====
